---- MODULE Spec2Model ----
(***************************************************************************)
(* provider-orgmapper: the Tenant controller (internal/controller/tenant)  *)
(* and the Grafana SSO org_mapping codec and sync (internal/grafana).      *)
(*                                                                         *)
(* Text that ends up in the org_mapping document (orgId, group claims,     *)
(* the document itself) is a sequence of one-character strings, so that    *)
(* joining, splitting, trimming and escaping are computed character by     *)
(* character as the Go code does.  tenantId and the external name are      *)
(* only compared for equality and are plain strings.                       *)
(***************************************************************************)
EXTENDS Naturals, Sequences, FiniteSets, TLC

\* ------------------------------------------------------------------ bounds

\* Number of Tenant custom resources in the cluster (their UIDs are 1..NumTenants).
NumTenants == 2
\* How many times the environment may change something (edit a spec, mark a
\* deletion, edit the Grafana settings behind the controller's back).
MaxEdits == 1
\* How many calls to the cluster or to Grafana may fail.
MaxFailures == 1
\* The readings time.Now() may return are 1..MaxTime.
MaxTime == 2

UIDs == 1..NumTenants

\* ------------------------------------------------------------ text helpers

Viewer == <<"V", "i", "e", "w", "e", "r">>
Editor == <<"E", "d", "i", "t", "o", "r">>

\* The white space that has no escape in a string: the vertical tab U+000B, the
\* next line U+0085, the no-break space U+00A0 and the ogham space mark U+1680.
VT == ""
NEL == ""
NBSP == " "
OGHAM == " "

\* unicode.IsSpace: '\t', '\n', '\v', '\f', '\r', ' ', U+0085, U+00A0 and U+1680.
\* (A string here cannot hold the rest of White_Space, U+2000 to U+200A, U+2028,
\* U+2029, U+202F, U+205F and U+3000.)
IsSpace(c) == c \in {"\t", "\n", VT, "\f", "\r", " ", NEL, NBSP, OGHAM}

RECURSIVE Flatten(_)
\* Concatenation of a sequence of sequences.
Flatten(ss) == IF ss = <<>> THEN <<>> ELSE Head(ss) \o Flatten(Tail(ss))

RECURSIVE Join(_, _)
\* strings.Join(entries, sep)
Join(entries, sep) ==
    IF entries = <<>> THEN <<>>
    ELSE IF Len(entries) = 1 THEN entries[1]
    ELSE entries[1] \o sep \o Join(Tail(entries), sep)

RECURSIVE Split(_, _)
\* strings.Split(s, sep) for a one-character separator: always at least one part.
Split(s, sep) ==
    IF \A i \in 1..Len(s) : s[i] # sep THEN <<s>>
    ELSE LET i == CHOOSE k \in 1..Len(s) :
                      s[k] = sep /\ \A j \in 1..(k - 1) : s[j] # sep
         IN  <<SubSeq(s, 1, i - 1)>> \o Split(SubSeq(s, i + 1, Len(s)), sep)

RECURSIVE TrimLeft(_)
TrimLeft(s) == IF s # <<>> /\ IsSpace(Head(s)) THEN TrimLeft(Tail(s)) ELSE s

RECURSIVE TrimRight(_)
TrimRight(s) ==
    IF s # <<>> /\ IsSpace(s[Len(s)]) THEN TrimRight(SubSeq(s, 1, Len(s) - 1)) ELSE s

\* strings.TrimSpace
TrimSpace(s) == TrimRight(TrimLeft(s))

\* ------------------------------------------------------- internal/grafana

\* An escaping that leaves every colon as it is.
escapeColonNot(s) == s

\* An escaping that escapes the first colon only.
escapeColonFirst(s) ==
    IF \A i \in 1..Len(s) : s[i] # ":" THEN s
    ELSE LET i == CHOOSE k \in 1..Len(s) : s[k] = ":" /\ \A j \in 1..(k - 1) : s[j] # ":"
         IN  SubSeq(s, 1, i - 1) \o <<"\\", ":">> \o SubSeq(s, i + 1, Len(s))

RECURSIVE escapeColon(_)
\* strings.ReplaceAll(s, ":", `\:`)
escapeColon(s) ==
    IF s = <<>> THEN <<>>
    ELSE (IF Head(s) = ":" THEN <<"\\", ":">> ELSE <<Head(s)>>) \o escapeColon(Tail(s))

\* fmt.Sprintf("%s:%s:<Role>", subject, orgID)
Entry(subject, orgID, role) == subject \o <<":">> \o orgID \o <<":">> \o role

\* The entries one TenantMapping contributes: its ViewerGroups, then its EditorGroups.
TenantEntries(t) ==
    [i \in 1..Len(t.ViewerGroups) |-> Entry(escapeColon(t.ViewerGroups[i]), t.OrgID, Viewer)]
    \o
    [i \in 1..Len(t.EditorGroups) |-> Entry(escapeColon(t.EditorGroups[i]), t.OrgID, Editor)]

BuildOrgMappingNoEditors(tenants) ==
    Join(Flatten([k \in 1..Len(tenants) |->
            [i \in 1..Len(tenants[k].ViewerGroups) |->
                Entry(escapeColon(tenants[k].ViewerGroups[i]), tenants[k].OrgID, Viewer)]]),
         <<",">>)

\* An encoding that first emits the default entry <orgId>:<orgId>:Viewer of each tenant.
BuildOrgMappingDefaultEntry(tenants) ==
    Join(Flatten([k \in 1..Len(tenants) |->
            <<Entry(tenants[k].OrgID, tenants[k].OrgID, Viewer)>> \o TenantEntries(tenants[k])]),
         <<",">>)

\* BuildOrgMapping: the comma-separated org_mapping value of a tenant sequence.
BuildOrgMapping(tenants) ==
    Join(Flatten([k \in 1..Len(tenants) |-> TenantEntries(tenants[k])]), <<",">>)

\* A lookup that accepts the entry <orgID>:<orgID>: with any role.
OrgMappingContainsAnyRole(orgMapping, orgID) ==
    LET prefix == orgID \o <<":">> \o orgID \o <<":">>
        parts == Split(orgMapping, ",")
    IN  \E i \in 1..Len(parts) :
            /\ Len(TrimSpace(parts[i])) >= Len(prefix)
            /\ SubSeq(TrimSpace(parts[i]), 1, Len(prefix)) = prefix

\* A lookup that compares the parts without trimming them.
OrgMappingContainsUntrimmed(orgMapping, orgID) ==
    LET entry == Entry(orgID, orgID, Viewer)
        parts == Split(orgMapping, ",")
    IN  \E i \in 1..Len(parts) : parts[i] = entry

\* OrgMappingContains: some comma-separated part, trimmed, is "<orgID>:<orgID>:Viewer".
OrgMappingContains(orgMapping, orgID) ==
    LET entry == Entry(orgID, orgID, Viewer)
        parts == Split(orgMapping, ",")
    IN  \E i \in 1..Len(parts) : TrimSpace(parts[i]) = entry

\* A fetch that takes the 404 of an unconfigured provider for a failure.
getOrInitSettingsNotFoundFails(sso, getFails) ==
    IF getFails THEN [err |-> TRUE, settings |-> <<>>]
    ELSE IF sso.kind # "Map" THEN [err |-> TRUE, settings |-> <<>>]
    ELSE [err |-> FALSE, settings |-> sso.map]

\* getOrInitSettings: the settings map SyncOrgMapping starts from, or an error.
\* sso is the provider's state: kind "NotFound" (404), "NotMap" (a payload that
\* is no map) or "Map" with its key-value map.
getOrInitSettings(sso, getFails) ==
    IF getFails THEN [err |-> TRUE, settings |-> <<>>]
    ELSE IF sso.kind = "NotFound" THEN [err |-> FALSE, settings |-> <<>>]
    ELSE IF sso.kind # "Map" THEN [err |-> TRUE, settings |-> <<>>]
    ELSE [err |-> FALSE, settings |-> sso.map]

\* m[k] = v on a Go map: every other key keeps its value.
MapPut(m, k, v) == [x \in (DOMAIN m) \cup {k} |-> IF x = k THEN v ELSE m[x]]

\* A sync that leaves an orgMapping already present as it is.
SyncBodyKeepsMapping(settings, tenants) ==
    IF "orgMapping" \in DOMAIN settings THEN settings
    ELSE [x \in (DOMAIN settings) \cup {"orgMapping"} |->
            IF x = "orgMapping" THEN BuildOrgMapping(tenants) ELSE settings[x]]

\* A sync that adds the rebuilt entries to the orgMapping it fetched.
SyncBodyAppends(settings, tenants) ==
    MapPut(settings, "orgMapping",
           IF "orgMapping" \in DOMAIN settings /\ settings["orgMapping"] # <<>>
           THEN IF BuildOrgMapping(tenants) = <<>> THEN settings["orgMapping"]
                ELSE settings["orgMapping"] \o <<",">> \o BuildOrgMapping(tenants)
           ELSE BuildOrgMapping(tenants))

\* A sync that sends the orgMapping alone.
SyncBodyOnlyMapping(settings, tenants) ==
    [x \in {"orgMapping"} |-> BuildOrgMapping(tenants)]

\* The settings SyncOrgMapping sends: the fetched map with orgMapping replaced.
SyncBody(settings, tenants) == MapPut(settings, "orgMapping", BuildOrgMapping(tenants))

\* A sync that does not look at the error of UpdateProviderSettings.
SyncOrgMappingIgnoresPutError(sso, tenants, getFails, putFails) ==
    LET r == getOrInitSettings(sso, getFails)
        body == SyncBody(r.settings, tenants)
    IN  IF r.err
        THEN [err |-> "get", puts |-> 0, body |-> <<>>, after |-> sso]
        ELSE [err |-> "none", puts |-> 1, body |-> body,
              after |-> IF putFails THEN sso ELSE [kind |-> "Map", map |-> body]]

\* SyncOrgMapping as one call on the provider's state sso: the error it returns
\* ("none", "get" or "put"), the UpdateProviderSettings requests it issued, the
\* settings it sent and the provider's state afterwards.
SyncOrgMapping(sso, tenants, getFails, putFails) ==
    LET r == getOrInitSettings(sso, getFails)
        body == SyncBody(r.settings, tenants)
    IN  IF r.err
        THEN [err |-> "get", puts |-> 0, body |-> <<>>, after |-> sso]
        ELSE IF putFails
        THEN [err |-> "put", puts |-> 1, body |-> body, after |-> sso]
        ELSE [err |-> "none", puts |-> 1, body |-> body,
              after |-> [kind |-> "Map", map |-> body]]

\* ------------------------------------------------ apis/tenant/v1alpha1 types

NoRetention == [Logs |-> "", Metrics |-> "", Traces |-> "", Profiles |-> ""]

\* The zero TenantObservation; LastUpdated 0 is the empty string.
EmptyObservation ==
    [TenantID |-> "", OrgID |-> <<>>, Admins |-> <<>>, ViewerGroups |-> <<>>,
     EditorGroups |-> <<>>, Retention |-> NoRetention, LastUpdated |-> 0]

\* Values the environment writes into spec.forProvider.  The group claim "o"
\* is spelled like the orgId "o".
TenantIDs == {"acme", "beta"}
OrgIDs == {<<"o">>, <<"p">>}
GroupChoices ==
    { [ViewerGroups |-> <<>>, EditorGroups |-> <<>>],
      [ViewerGroups |-> <<<<"g">>>>, EditorGroups |-> <<>>],
      [ViewerGroups |-> <<<<"o">>>>, EditorGroups |-> <<<<"e">>>>] }
SomeRetention == [Logs |-> "30d", Metrics |-> "", Traces |-> "", Profiles |-> ""]

TenantParameters ==
    { [TenantID |-> id, OrgID |-> org, Admins |-> <<>>,
       ViewerGroups |-> g.ViewerGroups, EditorGroups |-> g.EditorGroups,
       Retention |-> SomeRetention] :
      id \in TenantIDs, org \in OrgIDs, g \in GroupChoices }

\* The specs the Tenants are first applied with.
InitialParameters == {p \in TenantParameters : p.OrgID = <<"o">>}

\* A Tenant object: metadata (external-name annotation, deletionTimestamp),
\* spec.forProvider and status.atProvider.  present is FALSE once the object is
\* gone from the cluster.
NoTenant ==
    [present |-> FALSE, spec |-> CHOOSE p \in TenantParameters : TRUE,
     externalName |-> "", deletionTimestamp |-> FALSE, atProvider |-> EmptyObservation]

NewTenant(p) ==
    [present |-> TRUE, spec |-> p, externalName |-> "", deletionTimestamp |-> FALSE,
     atProvider |-> EmptyObservation]

\* ------------------------------------------- internal/controller/tenant

\* slicesEqual: nil and empty are both the empty sequence here.
slicesEqual(a, b) ==
    IF Len(a) = 0 /\ Len(b) = 0 THEN TRUE
    ELSE IF Len(a) # Len(b) THEN FALSE
    ELSE \A i \in 1..Len(a) : a[i] = b[i]

\* A comparison that leaves the orgId out.
isUpToDateIgnoresOrgID(cr) ==
    /\ cr.spec.TenantID = cr.atProvider.TenantID
    /\ cr.spec.Retention = cr.atProvider.Retention
    /\ slicesEqual(cr.spec.Admins, cr.atProvider.Admins)
    /\ slicesEqual(cr.spec.ViewerGroups, cr.atProvider.ViewerGroups)
    /\ slicesEqual(cr.spec.EditorGroups, cr.atProvider.EditorGroups)

\* isUpToDate compares spec.forProvider against status.atProvider.
isUpToDate(cr) ==
    /\ cr.spec.TenantID = cr.atProvider.TenantID
    /\ cr.spec.OrgID = cr.atProvider.OrgID
    /\ cr.spec.Retention = cr.atProvider.Retention
    /\ slicesEqual(cr.spec.Admins, cr.atProvider.Admins)
    /\ slicesEqual(cr.spec.ViewerGroups, cr.atProvider.ViewerGroups)
    /\ slicesEqual(cr.spec.EditorGroups, cr.atProvider.EditorGroups)

\* A status copy that leaves the observed orgId as it was.
syncStatusKeepsOrgID(cr, time) ==
    [cr EXCEPT !.atProvider =
        [TenantID |-> cr.spec.TenantID, OrgID |-> cr.atProvider.OrgID,
         Admins |-> cr.spec.Admins, ViewerGroups |-> cr.spec.ViewerGroups,
         EditorGroups |-> cr.spec.EditorGroups, Retention |-> cr.spec.Retention,
         LastUpdated |-> time]]

\* A status copy that leaves lastUpdated as it was.
syncStatusKeepsStamp(cr, time) ==
    [cr EXCEPT !.atProvider =
        [TenantID |-> cr.spec.TenantID, OrgID |-> cr.spec.OrgID,
         Admins |-> cr.spec.Admins, ViewerGroups |-> cr.spec.ViewerGroups,
         EditorGroups |-> cr.spec.EditorGroups, Retention |-> cr.spec.Retention,
         LastUpdated |-> cr.atProvider.LastUpdated]]

\* syncStatus copies spec fields into status and stamps lastUpdated.
syncStatus(cr, time) ==
    [cr EXCEPT !.atProvider =
        [TenantID |-> cr.spec.TenantID, OrgID |-> cr.spec.OrgID,
         Admins |-> cr.spec.Admins, ViewerGroups |-> cr.spec.ViewerGroups,
         EditorGroups |-> cr.spec.EditorGroups, Retention |-> cr.spec.Retention,
         LastUpdated |-> time]]

\* A uniqueness check that finds nothing.
validateUniqueTenantIDNever(items, uid, cr) == FALSE

\* A uniqueness check that does not skip the Tenant's own item.
validateUniqueTenantIDSelf(items, uid, cr) ==
    \E i \in 1..Len(items) : items[i].spec.TenantID = cr.spec.TenantID

\* A check that lets the oldest of the Tenants sharing a tenantId through.
validateUniqueTenantIDOlder(items, uid, cr) ==
    \E i \in 1..Len(items) :
        /\ items[i].uid < uid
        /\ items[i].spec.TenantID = cr.spec.TenantID

\* validateUniqueTenantID over a listing (a sequence of [uid, spec] items):
\* TRUE when some other item carries cr's tenantId.
validateUniqueTenantID(items, uid, cr) ==
    \E i \in 1..Len(items) :
        /\ items[i].uid # uid
        /\ items[i].spec.TenantID = cr.spec.TenantID

\* A listing turned into mappings without the reconciled Tenant, deleting or not.
MappingsAlwaysSkipSelf(items, uid, deleting) ==
    LET kept == SelectSeq(items, LAMBDA it : it.uid # uid)
    IN  [i \in 1..Len(kept) |->
            [OrgID |-> kept[i].spec.OrgID,
             ViewerGroups |-> kept[i].spec.ViewerGroups,
             EditorGroups |-> kept[i].spec.EditorGroups]]

\* A listing turned into mappings with the reconciled Tenant, deleting or not.
MappingsNeverSkip(items, uid, deleting) ==
    [i \in 1..Len(items) |->
        [OrgID |-> items[i].spec.OrgID,
         ViewerGroups |-> items[i].spec.ViewerGroups,
         EditorGroups |-> items[i].spec.EditorGroups]]

\* A listing turned into mappings that, when deleting, also leaves out every
\* Tenant of the deleted Tenant's orgId.
MappingsDropSameOrg(items, uid, deleting) ==
    LET mine == SelectSeq(items, LAMBDA it : it.uid = uid)
        kept == SelectSeq(items, LAMBDA it :
                    ~(deleting /\ \E i \in 1..Len(mine) : mine[i].spec.OrgID = it.spec.OrgID))
    IN  [i \in 1..Len(kept) |->
            [OrgID |-> kept[i].spec.OrgID,
             ViewerGroups |-> kept[i].spec.ViewerGroups,
             EditorGroups |-> kept[i].spec.EditorGroups]]

\* A listing turned into mappings without the editor groups.
MappingsNoEditors(items, uid, deleting) ==
    LET kept == SelectSeq(items, LAMBDA it : ~(deleting /\ it.uid = uid))
    IN  [i \in 1..Len(kept) |->
            [OrgID |-> kept[i].spec.OrgID,
             ViewerGroups |-> kept[i].spec.ViewerGroups,
             EditorGroups |-> <<>>]]

\* The TenantMapping sequence syncGrafanaOrgMapping builds from a listing.
Mappings(items, uid, deleting) ==
    LET kept == SelectSeq(items, LAMBDA it : ~(deleting /\ it.uid = uid))
    IN  [i \in 1..Len(kept) |->
            [OrgID |-> kept[i].spec.OrgID,
             ViewerGroups |-> kept[i].spec.ViewerGroups,
             EditorGroups |-> kept[i].spec.EditorGroups]]

\* A drift check that accepts whatever orgMapping it fetched.
isGrafanaDriftedNever(cr, sso, getFails) ==
    IF Len(cr.spec.ViewerGroups) = 0 /\ Len(cr.spec.EditorGroups) = 0
    THEN [err |-> FALSE, drifted |-> FALSE, fetched |-> FALSE]
    ELSE IF getFails THEN [err |-> TRUE, drifted |-> FALSE, fetched |-> TRUE]
    ELSE IF sso.kind = "NotFound" THEN [err |-> FALSE, drifted |-> TRUE, fetched |-> TRUE]
    ELSE IF sso.kind # "Map" THEN [err |-> FALSE, drifted |-> TRUE, fetched |-> TRUE]
    ELSE [err |-> FALSE, drifted |-> FALSE, fetched |-> TRUE]

\* A drift check that looks for every entry the tenant's spec yields.
isGrafanaDriftedOwnEntries(cr, sso, getFails) ==
    IF Len(cr.spec.ViewerGroups) = 0 /\ Len(cr.spec.EditorGroups) = 0
    THEN [err |-> FALSE, drifted |-> FALSE, fetched |-> FALSE]
    ELSE IF getFails THEN [err |-> TRUE, drifted |-> FALSE, fetched |-> TRUE]
    ELSE IF sso.kind = "NotFound" THEN [err |-> FALSE, drifted |-> TRUE, fetched |-> TRUE]
    ELSE IF sso.kind # "Map" THEN [err |-> FALSE, drifted |-> TRUE, fetched |-> TRUE]
    ELSE LET orgMapping == IF "orgMapping" \in DOMAIN sso.map
                           THEN sso.map["orgMapping"] ELSE <<>>
             mine == TenantEntries([OrgID |-> cr.spec.OrgID,
                                    ViewerGroups |-> cr.spec.ViewerGroups,
                                    EditorGroups |-> cr.spec.EditorGroups])
             parts == Split(orgMapping, ",")
         IN  [err |-> FALSE,
              drifted |-> \E i \in 1..Len(mine) :
                              \A j \in 1..Len(parts) : parts[j] # mine[i],
              fetched |-> TRUE]

\* A drift check that takes missing or malformed settings for a failed check.
isGrafanaDriftedNotFoundFails(cr, sso, getFails) ==
    IF Len(cr.spec.ViewerGroups) = 0 /\ Len(cr.spec.EditorGroups) = 0
    THEN [err |-> FALSE, drifted |-> FALSE, fetched |-> FALSE]
    ELSE IF getFails THEN [err |-> TRUE, drifted |-> FALSE, fetched |-> TRUE]
    ELSE IF sso.kind = "NotFound" THEN [err |-> TRUE, drifted |-> FALSE, fetched |-> TRUE]
    ELSE IF sso.kind # "Map" THEN [err |-> TRUE, drifted |-> FALSE, fetched |-> TRUE]
    ELSE LET orgMapping == IF "orgMapping" \in DOMAIN sso.map
                           THEN sso.map["orgMapping"] ELSE <<>>
         IN  [err |-> FALSE,
              drifted |-> ~OrgMappingContains(orgMapping, cr.spec.OrgID),
              fetched |-> TRUE]

\* A drift check that fetches the settings for a Tenant without groups, too.
isGrafanaDriftedAlwaysFetches(cr, sso, getFails) ==
    IF getFails THEN [err |-> TRUE, drifted |-> FALSE, fetched |-> TRUE]
    ELSE IF sso.kind = "NotFound" THEN [err |-> FALSE, drifted |-> TRUE, fetched |-> TRUE]
    ELSE IF sso.kind # "Map" THEN [err |-> FALSE, drifted |-> TRUE, fetched |-> TRUE]
    ELSE LET orgMapping == IF "orgMapping" \in DOMAIN sso.map
                           THEN sso.map["orgMapping"] ELSE <<>>
         IN  [err |-> FALSE,
              drifted |-> ~OrgMappingContains(orgMapping, cr.spec.OrgID),
              fetched |-> TRUE]

\* isGrafanaDrifted: [err, drifted] for a tenant and the provider's state.
isGrafanaDrifted(cr, sso, getFails) ==
    IF Len(cr.spec.ViewerGroups) = 0 /\ Len(cr.spec.EditorGroups) = 0
    THEN [err |-> FALSE, drifted |-> FALSE, fetched |-> FALSE]
    ELSE IF getFails THEN [err |-> TRUE, drifted |-> FALSE, fetched |-> TRUE]
    ELSE IF sso.kind = "NotFound" THEN [err |-> FALSE, drifted |-> TRUE, fetched |-> TRUE]
    ELSE IF sso.kind # "Map" THEN [err |-> FALSE, drifted |-> TRUE, fetched |-> TRUE]
    ELSE LET orgMapping == IF "orgMapping" \in DOMAIN sso.map
                           THEN sso.map["orgMapping"] ELSE <<>>
         IN  [err |-> FALSE,
              drifted |-> ~OrgMappingContains(orgMapping, cr.spec.OrgID),
              fetched |-> TRUE]

\* --------------------------------------------------------------- the state

VARIABLES
    store,          \* UID -> Tenant object held by the cluster
    sso,            \* Grafana's generic_oauth SSO settings
    pc,             \* UID -> where that tenant's reconcile is
    op,             \* UID -> the handler whose sync is running
    snap,           \* UID -> the TenantMapping sequence built from its listing
    fetched,        \* UID -> the settings map its sync fetched
    managed,        \* UID -> the object its reconcile read and hands to Connect, Observe
                    \*        and Create or Update, until the last of them has taken what it
                    \*        needs from it (NoTenant otherwise)
    now,            \* what time.Now() returns at present
    obsRes,         \* UID -> what its last Observe returned
    res,            \* UID -> what its last Create/Update/Delete returned; after an Observe,
                    \*        syncFailed tells that its best-effort Grafana call failed and
                    \*        afterFailedUpdate that it followed an Update whose sync failed
    calls,          \* UID -> Grafana calls issued by its running or last handler
    lists,          \* UID -> tenant listings issued by its running or last handler
    sent,           \* the UpdateProviderSettings request the step just taken sent, if any
    edits,          \* environment changes so far: edits of Tenants and of the settings,
                    \*        deletions, changes of the wall clock
    failures,       \* failed calls so far
    cyc,            \* UID -> its running reconcile: "none", "stale", "fresh" or "clean"
    done,           \* UID -> its reconciles since the last change: "no", "quiet", "wrote"
    lastWriter,     \* UID whose sync last replaced the settings (0: none, or an outsider)
    lost,           \* UID -> "lost": a peer's replace dropped entries this tenant had
                    \*        written; "healing": and its next Observe asked for an Update;
                    \*        "healed": and that Update's sync replaced the settings
    raced,          \* since the last change, a sync replaced the settings from a stale listing
    prior,          \* UID -> the lastUpdated its status carried when its last Create or
                    \*        Update began
    input,          \* the function called on its own, with its arguments
    output          \* what that call returned

base == <<store, sso, pc, op, snap, fetched, managed, now, obsRes, res, calls, lists,
          sent, edits, failures>>
track == <<cyc, done, lastWriter, lost, raced, prior>>
pure == <<input, output>>
vars == <<base, track, pure>>

NoResult == [op |-> "none", err |-> "none", syncFailed |-> FALSE, afterFailedUpdate |-> FALSE]
NoCall == [fn |-> "none"]
NoPut == [by |-> 0, op |-> "none", fetched |-> <<>>, body |-> <<>>, tenants |-> <<>>]

NotFoundSSO == [kind |-> "NotFound", map |-> <<>>]
NotMapSSO == [kind |-> "NotMap", map |-> <<>>]
MapSSO(m) == [kind |-> "Map", map |-> m]

\* What someone other than the controller may leave in Grafana.
ExternalSettings ==
    { NotFoundSSO, NotMapSSO,
      MapSSO([k \in {"clientId", "orgMapping"} |->
                 IF k = "clientId" THEN "c2" ELSE Entry(<<"x">>, <<"o">>, Viewer)]) }

Present == {t \in UIDs : store[t].present}

\* The orders in which kube.List may return the Tenants of the cluster.
ListOrders ==
    {f \in [1..Cardinality(Present) -> Present] :
        \A i, j \in 1..Cardinality(Present) : i # j => f[i] # f[j]}

Items(order) == [i \in 1..Len(order) |-> [uid |-> order[i], spec |-> store[order[i]].spec]]

\* What time.Now() may return.
Times == 1..MaxTime

\* Tenant 1 is applied as acme without group claims and gets them by an edit;
\* the other Tenants are applied with any of the initial specs.
Init ==
    /\ store \in [UIDs -> {NewTenant(p) : p \in InitialParameters}]
    /\ store[1].spec.TenantID = "acme"
    /\ store[1].spec.ViewerGroups = <<>>
    /\ sso = MapSSO([k \in {"clientId"} |-> "c1"])
    /\ pc = [t \in UIDs |-> "idle"]
    /\ op = [t \in UIDs |-> "none"]
    /\ snap = [t \in UIDs |-> <<>>]
    /\ fetched = [t \in UIDs |-> <<>>]
    /\ managed = [t \in UIDs |-> NoTenant]
    /\ now \in Times
    /\ obsRes = [t \in UIDs |-> "none"]
    /\ res = [t \in UIDs |-> NoResult]
    /\ calls = [t \in UIDs |-> 0]
    /\ lists = [t \in UIDs |-> 0]
    /\ sent = NoPut
    /\ edits = 0
    /\ failures = 0
    /\ cyc = [t \in UIDs |-> "none"]
    /\ done = [t \in UIDs |-> "no"]
    /\ lastWriter = 0
    /\ lost = [t \in UIDs |-> "no"]
    /\ raced = FALSE
    /\ prior = [t \in UIDs |-> 0]
    /\ input = NoCall
    /\ output = NoCall

\* A call to the cluster or to Grafana may fail while the environment's budget lasts.
MayFail(fails) == fails => failures < MaxFailures
Disturbed(fails) ==
    /\ failures' = IF fails THEN failures + 1 ELSE failures
    /\ edits' = edits

\* ------------------------------------------------------------ the handlers

\* An entry that asserts the type in Observe, Create and Update, not in Delete.
assertTenantNotInDelete(handler, mg) ==
    IF mg.kind # "Tenant" /\ handler # "Delete"
    THEN [err |-> "errNotTenant", entered |-> FALSE, lists |-> 0, calls |-> 0, changed |-> FALSE]
    ELSE [err |-> "none", entered |-> TRUE, lists |-> 0, calls |-> 0, changed |-> FALSE]

\* Observe, Create, Update and Delete up to their type assertion
\* cr, ok := mg.(*v1alpha1.Tenant): the error returned there, whether the
\* handler goes on, and the listings, Grafana calls and status changes so far.
assertTenant(handler, mg) ==
    IF mg.kind # "Tenant"
    THEN [err |-> "errNotTenant", entered |-> FALSE, lists |-> 0, calls |-> 0, changed |-> FALSE]
    ELSE [err |-> "none", entered |-> TRUE, lists |-> 0, calls |-> 0, changed |-> FALSE]

\* An Observe that fetches the settings before it looks at the external name.
observeFetchesFirst(cr, settings, getFails) ==
    IF cr.externalName = ""
    THEN [exists |-> FALSE, upToDate |-> FALSE, gets |-> 1, driftErr |-> getFails, syncs |-> FALSE]
    ELSE IF cr.deletionTimestamp
    THEN [exists |-> FALSE, upToDate |-> FALSE, gets |-> 1, driftErr |-> getFails, syncs |-> TRUE]
    ELSE IF ~isUpToDate(cr)
    THEN [exists |-> TRUE, upToDate |-> FALSE, gets |-> 1, driftErr |-> getFails, syncs |-> FALSE]
    ELSE LET d == isGrafanaDrifted(cr, settings, getFails)
         IN  [exists |-> TRUE,
              upToDate |-> d.err \/ ~d.drifted,
              gets |-> 1,
              driftErr |-> d.err,
              syncs |-> FALSE]

\* An Observe that takes a failed drift check for drift.
observeBlocksOnDriftError(cr, settings, getFails) ==
    IF cr.externalName = ""
    THEN [exists |-> FALSE, upToDate |-> FALSE, gets |-> 0, driftErr |-> FALSE, syncs |-> FALSE]
    ELSE IF cr.deletionTimestamp
    THEN [exists |-> FALSE, upToDate |-> FALSE, gets |-> 0, driftErr |-> FALSE, syncs |-> TRUE]
    ELSE IF ~isUpToDate(cr)
    THEN [exists |-> TRUE, upToDate |-> FALSE, gets |-> 0, driftErr |-> FALSE, syncs |-> FALSE]
    ELSE LET d == isGrafanaDrifted(cr, settings, getFails)
         IN  [exists |-> TRUE,
              upToDate |-> ~d.err /\ ~d.drifted,
              gets |-> IF d.fetched THEN 1 ELSE 0,
              driftErr |-> d.err,
              syncs |-> FALSE]

\* What Observe computes from the Tenant and Grafana's settings, up to the sync
\* of its deletion branch (syncs): whether the resource exists and is up to
\* date, the GetProviderSettings calls issued, and whether the drift check failed.
observe(cr, settings, getFails) ==
    IF cr.externalName = ""
    THEN [exists |-> FALSE, upToDate |-> FALSE, gets |-> 0, driftErr |-> FALSE, syncs |-> FALSE]
    ELSE IF cr.deletionTimestamp
    THEN [exists |-> FALSE, upToDate |-> FALSE, gets |-> 0, driftErr |-> FALSE, syncs |-> TRUE]
    ELSE IF ~isUpToDate(cr)
    THEN [exists |-> TRUE, upToDate |-> FALSE, gets |-> 0, driftErr |-> FALSE, syncs |-> FALSE]
    ELSE LET d == isGrafanaDrifted(cr, settings, getFails)
         IN  [exists |-> TRUE,
              upToDate |-> d.err \/ ~d.drifted,
              gets |-> IF d.fetched THEN 1 ELSE 0,
              driftErr |-> d.err,
              syncs |-> FALSE]

\* syncGrafanaOrgMapping as one call, for the Tenant uid on a cluster whose
\* listing returns items and a Grafana that holds settings: the error it returns
\* ("none", "list", "get" or "put"), the calls it issued and Grafana's settings
\* afterwards.
syncGrafanaOrgMapping(items, uid, deleting, settings, listFails, getFails, putFails) ==
    IF listFails
    THEN [err |-> "list", lists |-> 1, gets |-> 0, puts |-> 0, after |-> settings]
    ELSE LET r == SyncOrgMapping(settings, Mappings(items, uid, deleting), getFails, putFails)
         IN  [err |-> r.err, lists |-> 1, gets |-> 1, puts |-> r.puts, after |-> r.after]

\* Observe as one call, the sync of its deletion branch included: what it
\* returns, and beside it the listings, the GetProviderSettings and
\* UpdateProviderSettings calls of that sync, its error (logged, not returned)
\* and Grafana's settings when Observe returns.
observeAndSync(cr, uid, items, settings, listFails, getFails, putFails) ==
    LET o == observe(cr, settings, getFails)
        y == IF o.syncs
             THEN syncGrafanaOrgMapping(items, uid, TRUE, settings, listFails, getFails, putFails)
             ELSE [err |-> "none", lists |-> 0, gets |-> 0, puts |-> 0, after |-> settings]
    IN  [exists |-> o.exists, upToDate |-> o.upToDate, gets |-> o.gets,
         driftErr |-> o.driftErr, syncs |-> o.syncs,
         syncErr |-> y.err, lists |-> y.lists, syncGets |-> y.gets, puts |-> y.puts,
         after |-> y.after]

\* The managed reconciler starts on Tenant t: it reads the object from the
\* cluster and hands it to Connect, whose own calls may fail and end the
\* reconcile; Observe and the handler it asks for get the same object.
Connect(t) ==
    /\ pc[t] = "idle"
    /\ store[t].present
    /\ \E connectFails \in BOOLEAN :
        /\ MayFail(connectFails)
        /\ Disturbed(connectFails)
        /\ pc' = [pc EXCEPT ![t] = IF connectFails THEN "idle" ELSE "observe"]
        /\ managed' = [managed EXCEPT ![t] = IF connectFails THEN NoTenant ELSE store[t]]
    /\ UNCHANGED <<store, sso, op, snap, fetched, obsRes, res, calls, lists>>
    /\ sent' = NoPut
    /\ now' = now

\* Observe of a Tenant without deletionTimestamp, or without external name, on
\* the object cr its reconcile read: local comparison and, when up to date, the
\* drift check's single fetch.
Observe(t) ==
    /\ pc[t] = "observe"
    /\ managed[t].externalName = "" \/ ~managed[t].deletionTimestamp
    /\ \E getFails \in BOOLEAN :
        LET cr == managed[t]
            r == observe(cr, sso, getFails)
        IN  /\ MayFail(getFails)
            /\ getFails => r.driftErr
            /\ Disturbed(getFails)
            /\ calls' = [calls EXCEPT ![t] = r.gets]
            /\ lists' = [lists EXCEPT ![t] = 0]
            /\ res' = [res EXCEPT ![t] =
                    [NoResult EXCEPT !.syncFailed = r.driftErr,
                                     !.afterFailedUpdate =
                                        res[t].op = "Update" /\ res[t].syncFailed]]
            /\ IF ~r.exists
               THEN /\ obsRes' = [obsRes EXCEPT ![t] = "Absent"]
                    /\ pc' = [pc EXCEPT ![t] =
                                IF cr.deletionTimestamp THEN "deleted" ELSE "create"]
               ELSE IF r.upToDate
               THEN /\ obsRes' = [obsRes EXCEPT ![t] = "Synced"]
                    /\ pc' = [pc EXCEPT ![t] = "idle"]
               ELSE /\ obsRes' = [obsRes EXCEPT ![t] = "ExistsNotSynced"]
                    /\ pc' = [pc EXCEPT ![t] = "update"]
            /\ managed' = [managed EXCEPT ![t] =
                    IF (r.exists /\ ~r.upToDate) \/ (~r.exists /\ ~cr.deletionTimestamp)
                    THEN cr ELSE NoTenant]
    /\ UNCHANGED <<store, sso, op, snap, fetched>>
    /\ sent' = NoPut
    /\ now' = now

\* Observe of a created Tenant whose object, as its reconcile read it, carries
\* a deletionTimestamp: it starts syncGrafanaOrgMapping(cr, deleting = true).
ObserveDeleting(t) ==
    /\ pc[t] = "observe"
    /\ managed[t].externalName # ""
    /\ managed[t].deletionTimestamp
    /\ pc' = [pc EXCEPT ![t] = "list"]
    /\ op' = [op EXCEPT ![t] = "ObserveDelete"]
    /\ obsRes' = [obsRes EXCEPT ![t] = "none"]
    /\ res' = [res EXCEPT ![t] = NoResult]
    /\ calls' = [calls EXCEPT ![t] = 0]
    /\ lists' = [lists EXCEPT ![t] = 0]
    /\ UNCHANGED <<store, sso, snap, fetched, edits, failures>>
    /\ sent' = NoPut
    /\ now' = now
    /\ managed' = [managed EXCEPT ![t] = NoTenant]

\* Create up to the start of its sync, on the object cr its reconcile read: the
\* uniqueness check on a first listing, then the external name and the status,
\* which the cluster's object takes over; its spec is the cluster's.
Create(t) ==
    /\ pc[t] = "create"
    /\ \E order \in ListOrders, listFails \in BOOLEAN :
        LET cr == managed[t]
            dup == validateUniqueTenantID(Items(order), t, cr)
        IN  /\ MayFail(listFails)
            /\ Disturbed(listFails)
            /\ calls' = [calls EXCEPT ![t] = 0]
            /\ lists' = [lists EXCEPT ![t] = 1]
            /\ IF listFails \/ dup
               THEN /\ res' = [res EXCEPT ![t] =
                            [NoResult EXCEPT !.op = "Create",
                                !.err = IF listFails THEN "list" ELSE "conflict"]]
                    /\ pc' = [pc EXCEPT ![t] = "idle"]
                    /\ UNCHANGED <<store, op>>
                    /\ now' = now
                    /\ managed' = [managed EXCEPT ![t] = NoTenant]
               ELSE /\ LET stamped == syncStatus([cr EXCEPT !.externalName = cr.spec.TenantID],
                                                  now)
                        IN  store' = [store EXCEPT
                                    ![t].externalName = stamped.externalName,
                                    ![t].atProvider = stamped.atProvider]
                    /\ now' = now
                    /\ managed' = [managed EXCEPT ![t] = NoTenant]
                    /\ op' = [op EXCEPT ![t] = "Create"]
                    /\ pc' = [pc EXCEPT ![t] = "list"]
                    /\ res' = [res EXCEPT ![t] = NoResult]
    /\ UNCHANGED <<sso, snap, fetched, obsRes>>
    /\ sent' = NoPut

\* Update up to the start of its sync, on the object cr its reconcile read: the
\* status is overwritten first, from cr's spec.
Update(t) ==
    /\ pc[t] = "update"
    /\ store' = [store EXCEPT ![t].atProvider = syncStatus(managed[t], now).atProvider]
    /\ managed' = [managed EXCEPT ![t] = NoTenant]
    /\ now' = now
    /\ op' = [op EXCEPT ![t] = "Update"]
    /\ pc' = [pc EXCEPT ![t] = "list"]
    /\ res' = [res EXCEPT ![t] = NoResult]
    /\ calls' = [calls EXCEPT ![t] = 0]
    /\ lists' = [lists EXCEPT ![t] = 0]
    /\ UNCHANGED <<sso, snap, fetched, obsRes, edits, failures>>
    /\ sent' = NoPut

\* Delete starts syncGrafanaOrgMapping(cr, deleting = true).
Delete(t) ==
    /\ pc[t] = "deleted"
    /\ op[t] # "Delete"
    /\ op' = [op EXCEPT ![t] = "Delete"]
    /\ pc' = [pc EXCEPT ![t] = "list"]
    /\ res' = [res EXCEPT ![t] = NoResult]
    /\ calls' = [calls EXCEPT ![t] = 0]
    /\ lists' = [lists EXCEPT ![t] = 0]
    /\ UNCHANGED <<store, sso, snap, fetched, obsRes, edits, failures>>
    /\ sent' = NoPut
    /\ now' = now
    /\ managed' = managed

\* How the handler that ran the sync returns, given whether the sync failed:
\* Create propagates the error, Update and Delete swallow it, Observe reports
\* ResourceExists false either way.
Return(t, failed) ==
    /\ snap' = [snap EXCEPT ![t] = <<>>]
    /\ fetched' = [fetched EXCEPT ![t] = <<>>]
    /\ IF op[t] = "ObserveDelete"
       THEN /\ obsRes' = [obsRes EXCEPT ![t] = "Absent"]
            /\ res' = [res EXCEPT ![t] = [NoResult EXCEPT !.syncFailed = failed]]
            /\ pc' = [pc EXCEPT ![t] = "deleted"]
       ELSE /\ obsRes' = obsRes
            /\ res' = [res EXCEPT ![t] =
                    [NoResult EXCEPT !.op = op[t],
                        !.err = IF op[t] = "Create" /\ failed THEN "sync" ELSE "none",
                        !.syncFailed = failed]]
            /\ pc' = [pc EXCEPT ![t] = IF op[t] = "Delete" THEN "deleted" ELSE "idle"]

\* A sync that goes on with no Tenants when the listing failed.
SyncListIgnoresError(t) ==
    /\ pc[t] = "list"
    /\ \E order \in ListOrders, listFails \in BOOLEAN :
        /\ MayFail(listFails)
        /\ Disturbed(listFails)
        /\ lists' = [lists EXCEPT ![t] = @ + 1]
        /\ snap' = [snap EXCEPT ![t] =
                IF listFails THEN <<>>
                ELSE Mappings(Items(order), t, op[t] \in {"ObserveDelete", "Delete"})]
        /\ pc' = [pc EXCEPT ![t] = "fetch"]
        /\ UNCHANGED <<fetched, obsRes, res>>
    /\ UNCHANGED <<store, sso, op, calls>>
    /\ sent' = NoPut
    /\ now' = now
    /\ managed' = managed

\* syncGrafanaOrgMapping: list the Tenants and build the mappings.
SyncList(t) ==
    /\ pc[t] = "list"
    /\ \E order \in ListOrders, listFails \in BOOLEAN :
        /\ MayFail(listFails)
        /\ Disturbed(listFails)
        /\ lists' = [lists EXCEPT ![t] = @ + 1]
        /\ IF listFails
           THEN Return(t, TRUE)
           ELSE /\ snap' = [snap EXCEPT ![t] =
                        Mappings(Items(order), t, op[t] \in {"ObserveDelete", "Delete"})]
                /\ pc' = [pc EXCEPT ![t] = "fetch"]
                /\ UNCHANGED <<fetched, obsRes, res>>
    /\ UNCHANGED <<store, sso, op, calls>>
    /\ sent' = NoPut
    /\ now' = now
    /\ managed' = managed

\* SyncOrgMapping: fetch the current settings.
SyncFetch(t) ==
    /\ pc[t] = "fetch"
    /\ \E getFails \in BOOLEAN :
        LET r == getOrInitSettings(sso, getFails)
        IN  /\ MayFail(getFails)
            /\ Disturbed(getFails)
            /\ calls' = [calls EXCEPT ![t] = @ + 1]
            /\ IF r.err
               THEN Return(t, TRUE)
               ELSE /\ fetched' = [fetched EXCEPT ![t] = r.settings]
                    /\ pc' = [pc EXCEPT ![t] = "replace"]
                    /\ UNCHANGED <<snap, obsRes, res>>
    /\ UNCHANGED <<store, sso, op, lists>>
    /\ sent' = NoPut
    /\ now' = now
    /\ managed' = managed

\* SyncOrgMapping: write the settings back with the rebuilt orgMapping.
SyncReplace(t) ==
    /\ pc[t] = "replace"
    /\ \E putFails \in BOOLEAN :
        /\ MayFail(putFails)
        /\ Disturbed(putFails)
        /\ calls' = [calls EXCEPT ![t] = @ + 1]
        /\ sent' = [by |-> t, op |-> op[t], fetched |-> fetched[t],
                       body |-> SyncBody(fetched[t], snap[t]), tenants |-> snap[t]]
        /\ sso' = IF putFails THEN sso ELSE MapSSO(SyncBody(fetched[t], snap[t]))
        /\ Return(t, putFails)
    /\ UNCHANGED <<store, op, lists>>
    /\ now' = now
    /\ managed' = managed

\* The managed reconciler removes the finalizer once Observe has reported
\* ResourceExists false for a Tenant with a deletionTimestamp: the object goes.
Finalize(t) ==
    /\ pc[t] = "deleted"
    /\ store' = [store EXCEPT ![t] = NoTenant]
    /\ pc' = [pc EXCEPT ![t] = "idle"]
    /\ op' = [op EXCEPT ![t] = "none"]
    /\ obsRes' = [obsRes EXCEPT ![t] = "none"]
    /\ res' = [res EXCEPT ![t] = NoResult]
    /\ calls' = [calls EXCEPT ![t] = 0]
    /\ lists' = [lists EXCEPT ![t] = 0]
    /\ UNCHANGED <<sso, snap, fetched, edits, failures>>
    /\ sent' = NoPut
    /\ now' = now
    /\ managed' = managed

\* ---------------------------------------------------------- the environment

\* One edit changes the tenantId, the orgId or the group claims.
OneEdit(old, new) ==
    \/ new = [old EXCEPT !.TenantID = new.TenantID] /\ new.TenantID # old.TenantID
    \/ new = [old EXCEPT !.OrgID = new.OrgID] /\ new.OrgID # old.OrgID
    \/ /\ new = [old EXCEPT !.ViewerGroups = new.ViewerGroups,
                            !.EditorGroups = new.EditorGroups]
       /\ <<new.ViewerGroups, new.EditorGroups>> # <<old.ViewerGroups, old.EditorGroups>>

\* The owner of a Tenant edits spec.forProvider, whatever its reconcile is at.
EditSpec(t) ==
    /\ store[t].present
    /\ edits < MaxEdits
    /\ \E p \in TenantParameters :
        /\ OneEdit(store[t].spec, p)
        /\ store' = [store EXCEPT ![t].spec = p]
    /\ edits' = edits + 1
    /\ UNCHANGED <<sso, pc, op, snap, fetched, obsRes, res, calls, lists, failures>>
    /\ sent' = NoPut
    /\ now' = now
    /\ managed' = managed

\* The owner deletes a Tenant, whatever its reconcile is at: it gets a
\* deletionTimestamp.
MarkDeleted(t) ==
    /\ store[t].present
    /\ ~store[t].deletionTimestamp
    /\ edits < MaxEdits
    /\ store' = [store EXCEPT ![t].deletionTimestamp = TRUE]
    /\ edits' = edits + 1
    /\ UNCHANGED <<sso, pc, op, snap, fetched, obsRes, res, calls, lists, failures>>
    /\ sent' = NoPut
    /\ now' = now
    /\ managed' = managed

\* The wall clock changes between two readings: it runs on, or is set back.
ClockChange ==
    /\ edits < MaxEdits
    /\ \E time \in Times :
        /\ time # now
        /\ now' = time
    /\ edits' = edits + 1
    /\ UNCHANGED <<store, sso, pc, op, snap, fetched, managed, obsRes, res, calls, lists,
                   failures>>
    /\ sent' = NoPut

\* Someone else changes Grafana's SSO settings.
ExternalEdit ==
    /\ edits < MaxEdits
    /\ \E s \in ExternalSettings :
        /\ s # sso
        /\ sso' = s
    /\ edits' = edits + 1
    /\ UNCHANGED <<store, pc, op, snap, fetched, obsRes, res, calls, lists, failures>>
    /\ sent' = NoPut
    /\ now' = now
    /\ managed' = managed

\* ------------------------------------------------ the reconciles, followed

\* The org_mapping document Grafana holds ("" when there is none).
Document(s) ==
    IF s.kind = "Map" /\ "orgMapping" \in DOMAIN s.map THEN s.map["orgMapping"] ELSE <<>>

\* The TenantMapping of one Tenant object.
MappingOf(cr) ==
    [OrgID |-> cr.spec.OrgID, ViewerGroups |-> cr.spec.ViewerGroups,
     EditorGroups |-> cr.spec.EditorGroups]

\* Every entry the tenant's current spec yields is an entry of the document.
HasAll(cr, doc) ==
    LET mine == TenantEntries(MappingOf(cr))
        parts == Split(doc, ",")
    IN  /\ mine # <<>>
        /\ \A i \in 1..Len(mine) : \E j \in 1..Len(parts) : parts[j] = mine[i]

\* A reconcile of t starts: it is "clean" when no reconcile that began before the
\* last change is still running, and when its Connect did not fail a call.
TrackConnect(t) ==
    LET cl == (\A u \in UIDs \ {t} : cyc[u] # "stale") /\ failures' = failures
    IN  /\ cyc' = [cyc EXCEPT ![t] =
                    IF pc'[t] = "idle" THEN "none" ELSE IF cl THEN "clean" ELSE "fresh"]
        /\ UNCHANGED <<done, lost, lastWriter, raced, prior, pure>>

\* The Observe of t's running reconcile.
TrackObserve(t) ==
    LET failed == failures' # failures
        ended == pc'[t] = "idle"
    IN  /\ cyc' = [cyc EXCEPT ![t] =
                    IF ended THEN "none"
                    ELSE IF failed /\ @ = "clean" THEN "fresh" ELSE @]
        /\ done' = [done EXCEPT ![t] =
                    IF ended /\ cyc[t] = "clean" /\ ~failed /\ @ = "no" THEN "quiet" ELSE @]
        /\ lost' = [lost EXCEPT ![t] =
                    IF @ = "lost" /\ obsRes'[t] = "ExistsNotSynced" THEN "healing" ELSE @]
        /\ UNCHANGED <<lastWriter, raced, prior, pure>>

\* A step of t's running reconcile.
TrackStep(t) ==
    LET failed == failures' # failures
        ended == pc'[t] = "idle"
        wroteNow == sent' # NoPut /\ ~failed
    IN  /\ cyc' = [cyc EXCEPT ![t] =
                    IF ended THEN "none"
                    ELSE IF failed /\ @ = "clean" THEN "fresh" ELSE @]
        /\ done' = [done EXCEPT ![t] =
                    IF ended /\ cyc[t] = "clean" /\ ~failed
                    THEN (IF wroteNow THEN "wrote" ELSE IF @ = "no" THEN "quiet" ELSE @)
                    ELSE @]
        /\ lastWriter' = IF wroteNow THEN t ELSE lastWriter
        /\ raced' = (raced \/ (wroteNow /\ cyc[t] = "stale"))
        /\ lost' = [u \in UIDs |->
                    IF ~wroteNow THEN lost[u]
                    ELSE IF u = t THEN (IF lost[t] = "healing" THEN "healed" ELSE "no")
                    ELSE IF /\ lost[u] \in {"no", "healed"}
                            /\ lastWriter = u
                            /\ pc[u] = "idle"
                            /\ HasAll(store[u], Document(sso))
                            /\ ~HasAll(store[u], Document(sso'))
                    THEN "lost" ELSE lost[u]]
        /\ UNCHANGED <<prior, pure>>

\* The tenant set or the settings changed under the running reconciles: those
\* that have already listed the Tenants now work from a stale listing.
TrackChange ==
    /\ cyc' = [u \in UIDs |->
                IF pc'[u] = "idle" THEN "none"
                ELSE IF pc[u] \in {"fetch", "replace"} \/ cyc[u] = "stale" THEN "stale"
                ELSE "fresh"]
    /\ raced' = FALSE
    /\ done' = [u \in UIDs |-> "no"]
    /\ lastWriter' = IF sso' # sso THEN 0 ELSE lastWriter
    /\ lost' = [u \in UIDs |-> IF store'[u] = store[u] /\ sso' = sso THEN lost[u] ELSE "no"]
    /\ UNCHANGED <<prior, pure>>

\* The history of the reconciles is not kept.
Unfollowed == UNCHANGED <<track, pure>>

\* The controller and its environment.
Next ==
    \/ \E t \in UIDs : Connect(t) /\ Unfollowed
    \/ \E t \in UIDs : Observe(t) /\ Unfollowed
    \/ \E t \in UIDs : ObserveDeleting(t) /\ Unfollowed
    \/ \E t \in UIDs : Create(t) /\ Unfollowed
    \/ \E t \in UIDs : Update(t) /\ Unfollowed
    \/ \E t \in UIDs : Delete(t) /\ Unfollowed
    \/ \E t \in UIDs : SyncList(t) /\ Unfollowed
    \/ \E t \in UIDs : SyncFetch(t) /\ Unfollowed
    \/ \E t \in UIDs : SyncReplace(t) /\ Unfollowed
    \/ \E t \in UIDs : Finalize(t) /\ Unfollowed
    \/ \E t \in UIDs : EditSpec(t) /\ Unfollowed
    \/ \E t \in UIDs : MarkDeleted(t) /\ Unfollowed
    \/ ExternalEdit /\ Unfollowed
    \/ ClockChange /\ Unfollowed

Spec == Init /\ [][Next]_vars

\* A step of the managed reconciler for Tenant t.
Reconcile(t) ==
    \/ Connect(t) /\ Unfollowed
    \/ Observe(t) /\ Unfollowed
    \/ ObserveDeleting(t) /\ Unfollowed
    \/ Create(t) /\ Unfollowed
    \/ Update(t) /\ Unfollowed
    \/ Delete(t) /\ Unfollowed
    \/ SyncList(t) /\ Unfollowed
    \/ SyncFetch(t) /\ Unfollowed
    \/ SyncReplace(t) /\ Unfollowed
    \/ Finalize(t) /\ Unfollowed

\* The controller polls every Tenant again and again and requeues it after an
\* error: no Tenant's reconcile is put off for ever.
FairSpec == Init /\ [][Next]_vars /\ \A t \in UIDs : WF_vars(Reconcile(t))

\* No call fails in this step.
NoFailure == failures' = failures

\* The same steps while every call succeeds, with the history of the reconciles
\* kept beside them.
FollowedNext ==
    \/ \E t \in UIDs : Connect(t) /\ TrackConnect(t) /\ NoFailure
    \/ \E t \in UIDs : Observe(t) /\ TrackObserve(t) /\ NoFailure
    \/ \E t \in UIDs : ObserveDeleting(t) /\ TrackObserve(t) /\ NoFailure
    \/ \E t \in UIDs : Create(t) /\ TrackStep(t) /\ NoFailure
    \/ \E t \in UIDs : Update(t) /\ TrackStep(t) /\ NoFailure
    \/ \E t \in UIDs : Delete(t) /\ TrackStep(t) /\ NoFailure
    \/ \E t \in UIDs : SyncList(t) /\ TrackStep(t) /\ NoFailure
    \/ \E t \in UIDs : SyncFetch(t) /\ TrackStep(t) /\ NoFailure
    \/ \E t \in UIDs : SyncReplace(t) /\ TrackStep(t) /\ NoFailure
    \/ \E t \in UIDs : Finalize(t) /\ TrackChange /\ NoFailure
    \/ \E t \in UIDs : EditSpec(t) /\ TrackChange /\ NoFailure
    \/ \E t \in UIDs : MarkDeleted(t) /\ TrackChange /\ NoFailure
    \/ ExternalEdit /\ TrackChange /\ NoFailure
    \/ ClockChange /\ UNCHANGED <<track, pure>> /\ NoFailure

FollowedSpec == Init /\ [][FollowedNext]_vars

\* ------------------------------------------ the controller on a cluster in use

LastUpdated(st, t) == st[t].atProvider.LastUpdated

\* Tenants as they are applied, and as a Create at an earlier reading of the
\* clock has left them.
NewTenants == {NewTenant(p) : p \in InitialParameters}
CreatedEarlier ==
    { syncStatus([NewTenant(p) EXCEPT !.externalName = p.TenantID], time) :
        p \in InitialParameters, time \in Times }

\* The controller takes up a cluster it has served before: Tenant 2 was applied
\* without group claims and created at an earlier reading of the clock, and the
\* settings hold the document its sync wrote; the other Tenants are new, as in
\* Init.
ResumeInit ==
    /\ store \in [UIDs -> NewTenants \cup CreatedEarlier]
    /\ \A t \in UIDs : store[t].spec.ViewerGroups = <<>> /\ store[t].spec.EditorGroups = <<>>
    /\ store[1].spec.TenantID = "acme"
    /\ \A t \in UIDs : store[t] \in CreatedEarlier <=> t = 2
    /\ sso = MapSSO([k \in {"clientId", "orgMapping"} |->
                        IF k = "clientId" THEN "c1" ELSE <<>>])
    /\ pc = [t \in UIDs |-> "idle"]
    /\ op = [t \in UIDs |-> "none"]
    /\ snap = [t \in UIDs |-> <<>>]
    /\ fetched = [t \in UIDs |-> <<>>]
    /\ managed = [t \in UIDs |-> NoTenant]
    /\ now \in Times
    /\ obsRes = [t \in UIDs |-> "none"]
    /\ res = [t \in UIDs |-> NoResult]
    /\ calls = [t \in UIDs |-> 0]
    /\ lists = [t \in UIDs |-> 0]
    /\ sent = NoPut
    /\ edits = 0
    /\ failures = 0
    /\ cyc = [t \in UIDs |-> "none"]
    /\ done = [t \in UIDs |-> "no"]
    /\ lastWriter = 0
    /\ lost = [t \in UIDs |-> "no"]
    /\ raced = FALSE
    /\ prior = [t \in UIDs |-> 0]
    /\ input = NoCall
    /\ output = NoCall

\* Create or Update of t begins: the lastUpdated its status carries is kept.
KeepPrior(t) ==
    /\ prior' = [prior EXCEPT ![t] = LastUpdated(store, t)]
    /\ UNCHANGED <<cyc, done, lastWriter, lost, raced, pure>>

\* The steps of the controller and its environment, with the lastUpdated each
\* Create and Update found kept beside them.
ResumeNext ==
    \/ \E t \in UIDs : Connect(t) /\ Unfollowed
    \/ \E t \in UIDs : Observe(t) /\ Unfollowed
    \/ \E t \in UIDs : ObserveDeleting(t) /\ Unfollowed
    \/ \E t \in UIDs : Create(t) /\ KeepPrior(t)
    \/ \E t \in UIDs : Update(t) /\ KeepPrior(t)
    \/ \E t \in UIDs : Delete(t) /\ Unfollowed
    \/ \E t \in UIDs : SyncList(t) /\ Unfollowed
    \/ \E t \in UIDs : SyncFetch(t) /\ Unfollowed
    \/ \E t \in UIDs : SyncReplace(t) /\ Unfollowed
    \/ \E t \in UIDs : Finalize(t) /\ Unfollowed
    \/ \E t \in UIDs : EditSpec(t) /\ Unfollowed
    \/ \E t \in UIDs : MarkDeleted(t) /\ Unfollowed
    \/ ExternalEdit /\ Unfollowed
    \/ ClockChange /\ Unfollowed

ResumeSpec == ResumeInit /\ [][ResumeNext]_vars

\* ------------------------------------------- the functions called on their own

\* How many tenants a sequence handed to BuildOrgMapping holds at most.
MaxDeclared == 2

\* A Tenant as its manifest declares it: the parameters and the admin groups.
Declared(p, admins, adminGroups, retention) ==
    [TenantID |-> p.TenantID, OrgID |-> p.OrgID, Admins |-> admins,
     ViewerGroups |-> p.ViewerGroups, EditorGroups |-> p.EditorGroups,
     AdminGroups |-> adminGroups, Retention |-> retention]

DeclaredParameters ==
    { Declared(p, a, ag, r) :
        p \in TenantParameters, a \in {<<>>, <<"u">>},
        ag \in {<<>>, <<<<"a">>>>}, r \in {SomeRetention, NoRetention} }

\* Tenant objects with every pairing of desired and observed fields.
DeclaredTenants ==
    { [present |-> TRUE, spec |-> d, externalName |-> d.TenantID,
       deletionTimestamp |-> FALSE,
       atProvider |-> [TenantID |-> o.TenantID, OrgID |-> o.OrgID, Admins |-> o.Admins,
                       ViewerGroups |-> o.ViewerGroups, EditorGroups |-> o.EditorGroups,
                       AdminGroups |-> o.AdminGroups, Retention |-> o.Retention,
                       LastUpdated |-> 1]] :
        d \in DeclaredParameters, o \in DeclaredParameters }

\* The observations a Tenant object may carry.
Observations ==
    {EmptyObservation} \cup {syncStatus(NewTenant(p), 1).atProvider : p \in TenantParameters}

\* Tenant objects as Observe may be handed them.
ObservedTenants ==
    { [present |-> TRUE, spec |-> p, externalName |-> n, deletionTimestamp |-> d,
       atProvider |-> a] :
        p \in TenantParameters, a \in Observations, n \in {"", "acme"}, d \in BOOLEAN }

\* Settings Grafana may hold when Observe fetches them.
ObservedSettings ==
    ExternalSettings \cup
    { MapSSO([k \in {"clientId"} |-> "c1"]),
      MapSSO([k \in {"orgMapping"} |-> Entry(<<"g">>, <<"o">>, Viewer)]),
      MapSSO([k \in {"orgMapping"} |->
                Entry(<<"o">>, <<"o">>, Viewer) \o <<",">> \o Entry(<<"e">>, <<"o">>, Editor)]) }

\* Group claims in the lists a manifest declares; one claim holds a colon.
GroupLists ==
    { <<>>, <<<<"g">>>>, <<<<"g">>, <<"a", ":", "b">>>>, <<<<"a", ":", "b">>, <<"g">>>> }

\* The tenants handed to BuildOrgMapping, as their manifests declare them.
DeclaredMappings ==
    { [OrgID |-> org, ViewerGroups |-> v, EditorGroups |-> e, AdminGroups |-> ag] :
        org \in OrgIDs, v \in GroupLists, e \in GroupLists,
        ag \in {<<>>, <<<<"a">>>>} }

DeclaredSequences ==
    UNION { [1..n -> DeclaredMappings] : n \in 0..MaxDeclared }

\* How long a group claim checked for its escaping is at most.
MaxSubject == 3

\* Group claims over the characters the org_mapping format gives a meaning to.
SubjectChars == {"g", ":", ",", "\\"}
Subjects == UNION { [1..n -> SubjectChars] : n \in 0..MaxSubject }

\* One tenant with one such group claim; one orgId holds a colon, one a comma.
SubjectMappings ==
    { [OrgID |-> org, ViewerGroups |-> IF viewer THEN <<sub>> ELSE <<>>,
       EditorGroups |-> IF viewer THEN <<>> ELSE <<sub>>, AdminGroups |-> <<>>] :
        org \in {<<"o">>, <<"o", ":", "1">>, <<"o", ",", "p">>},
        sub \in Subjects, viewer \in BOOLEAN }

\* How many comma-separated parts a document handed to OrgMappingContains holds at most.
MaxParts == 2

\* Parts of such a document: entries as the tests write them, one with blanks
\* around it, one between a form feed, an ogham space mark and a no-break
\* space, an empty part and a
\* part that ends in a backslash.
DocumentParts ==
    { Entry(<<"o">>, <<"o">>, Viewer),
      <<" ">> \o Entry(<<"o">>, <<"o">>, Viewer) \o <<" ">>,
      <<"\f", OGHAM>> \o Entry(<<"p">>, <<"p">>, Viewer) \o <<NBSP>>,
      Entry(<<"x">>, <<"o">>, Viewer),
      Entry(<<"x">>, <<"o">>, Editor),
      Entry(<<"x">>, <<"p">>, Viewer),
      <<"x", "\\">>,
      <<>> }

Documents == { Join(ps, <<",">>) : ps \in UNION { [1..n -> DocumentParts] : n \in 0..MaxParts } }

\* The orgIds looked up: two that tenants carry and one that none does.
QueriedOrgIDs == OrgIDs \cup {<<"q">>}

OrgMappingContainsCalls ==
    { [fn |-> "OrgMappingContains", orgMapping |-> d, orgID |-> org] :
        d \in Documents, org \in QueriedOrgIDs }

\* Tenants whose encoding is looked up: group claims spelled like the orgId,
\* with a comma, with a leading blank or no-break space, and an orgId with colons;
\* an orgId that is a backslash, with a group claim that ends in one and with one
\* that does not; an orgId and a group claim that begin with a blank.
EncodedMappings ==
    { [OrgID |-> org, ViewerGroups |-> v, EditorGroups |-> e, AdminGroups |-> <<>>] :
        org \in OrgIDs \cup {<<"1", ":", "o", ":", "1">>},
        v \in {<<>>, <<<<"o">>>>, <<<<"g">>>>, <<<<"g", ",", "o">>>>, <<<<" ", "o">>>>,
               <<<<NBSP, "o">>>>},
        e \in {<<>>, <<<<"o">>>>} }
    \cup
    { [OrgID |-> <<"\\">>, ViewerGroups |-> <<g>>, EditorGroups |-> <<>>, AdminGroups |-> <<>>] :
        g \in {<<":", ":", "\\">>, <<"\\">>} }
    \cup
    { [OrgID |-> <<" ", "o">>, ViewerGroups |-> <<<<" ", "o">>>>, EditorGroups |-> <<>>,
       AdminGroups |-> <<>>] }

\* The orgIds looked up in such an encoding.
EncodedOrgIDs ==
    QueriedOrgIDs \cup {<<"o", ":", "1">>, <<"\\">>, <<"\\", ":", "\\">>, <<" ", "o">>}

EncodedSequences == UNION { [1..n -> EncodedMappings] : n \in 0..MaxDeclared }

ContainsEncodedCalls ==
    { [fn |-> "ContainsEncoded", tenants |-> ts, orgID |-> org] :
        ts \in EncodedSequences, org \in EncodedOrgIDs }

\* The resources a handler may be handed: Tenants and a managed resource of
\* another kind.
ManagedResources ==
    { [kind |-> "Tenant", cr |-> NewTenant(p)] : p \in InitialParameters }
    \cup { [kind |-> "Managed"] }

Handlers == {"Observe", "Create", "Update", "Delete"}

HandlerCalls ==
    { [fn |-> "Handler", handler |-> h, mg |-> m] : h \in Handlers, m \in ManagedResources }

\* The calls the functions are checked on.
\* Another Tenant the cluster may hold beside the observed one.
PeerItem ==
    [uid |-> 2,
     spec |-> [TenantID |-> "beta", OrgID |-> <<"o">>, Admins |-> <<>>,
               ViewerGroups |-> <<<<"g">>>>, EditorGroups |-> <<>>,
               Retention |-> SomeRetention]]

\* Observe is called for the Tenant with UID 1.  The listing and the replace
\* come with the deletion branch only, so their outcomes, and the peer, vary
\* for a created Tenant with a deletionTimestamp.
ObserveCalls ==
    { c \in [fn : {"Observe"}, cr : ObservedTenants, settings : ObservedSettings,
             getFails : BOOLEAN, peers : {<<>>, <<PeerItem>>},
             listFails : BOOLEAN, putFails : BOOLEAN] :
        \/ c.cr.externalName # "" /\ c.cr.deletionTimestamp
        \/ c.peers = <<>> /\ ~c.listFails /\ ~c.putFails }

IsUpToDateCalls == { [fn |-> "isUpToDate", cr |-> cr] : cr \in DeclaredTenants }

BuildOrgMappingCalls ==
    { [fn |-> "BuildOrgMapping", tenants |-> ts] : ts \in DeclaredSequences }
    \cup { [fn |-> "BuildOrgMapping", tenants |-> <<m>>] : m \in SubjectMappings }

\* The tenants handed to SyncOrgMapping.
SyncMappings ==
    { [OrgID |-> org, ViewerGroups |-> v, EditorGroups |-> e, AdminGroups |-> ag] :
        org \in OrgIDs, v \in {<<>>, <<<<"g">>>>}, e \in {<<>>, <<<<"e">>>>},
        ag \in {<<>>, <<<<"a">>>>} }

SyncSequences == UNION { [1..n -> SyncMappings] : n \in 0..MaxDeclared }

SyncOrgMappingCalls ==
    { [fn |-> "SyncOrgMapping", settings |-> s, tenants |-> ts,
       getFails |-> gf, putFails |-> pf] :
        s \in ObservedSettings, ts \in SyncSequences, gf \in BOOLEAN, pf \in BOOLEAN }

\* One call with its arguments is chosen; the controller stands still.
PureInit ==
    /\ store = [t \in UIDs |-> NewTenant(CHOOSE p \in InitialParameters : TRUE)]
    /\ sso = MapSSO([k \in {"clientId"} |-> "c1"])
    /\ pc = [t \in UIDs |-> "idle"]
    /\ op = [t \in UIDs |-> "none"]
    /\ snap = [t \in UIDs |-> <<>>]
    /\ fetched = [t \in UIDs |-> <<>>]
    /\ managed = [t \in UIDs |-> NoTenant]
    /\ now = 1
    /\ obsRes = [t \in UIDs |-> "none"]
    /\ res = [t \in UIDs |-> NoResult]
    /\ calls = [t \in UIDs |-> 0]
    /\ lists = [t \in UIDs |-> 0]
    /\ sent = NoPut
    /\ edits = 0
    /\ failures = 0
    /\ cyc = [t \in UIDs |-> "none"]
    /\ done = [t \in UIDs |-> "no"]
    /\ lastWriter = 0
    /\ lost = [t \in UIDs |-> "no"]
    /\ raced = FALSE
    /\ prior = [t \in UIDs |-> 0]
    /\ input \in ObserveCalls \cup IsUpToDateCalls \cup BuildOrgMappingCalls
                \cup SyncOrgMappingCalls \cup OrgMappingContainsCalls
                \cup ContainsEncodedCalls \cup HandlerCalls
    /\ output = NoCall

\* Observe, whole, on a cluster that lists the Tenant and its peers and a
\* Grafana that holds input.settings; output.after is what Grafana holds then.
CallObserve ==
    /\ input.fn = "Observe"
    /\ output = NoCall
    /\ output' = observeAndSync(input.cr, 1,
                              <<[uid |-> 1, spec |-> input.cr.spec]>> \o input.peers,
                              input.settings, input.listFails, input.getFails,
                              input.putFails)
    /\ UNCHANGED <<base, track, input>>

CallIsUpToDate ==
    /\ input.fn = "isUpToDate"
    /\ output = NoCall
    /\ output' = [val |-> isUpToDate(input.cr)]
    /\ UNCHANGED <<base, track, input>>

CallBuildOrgMapping ==
    /\ input.fn = "BuildOrgMapping"
    /\ output = NoCall
    /\ output' = [val |-> BuildOrgMapping(input.tenants)]
    /\ UNCHANGED <<base, track, input>>

CallSyncOrgMapping ==
    /\ input.fn = "SyncOrgMapping"
    /\ output = NoCall
    /\ output' = SyncOrgMapping(input.settings, input.tenants, input.getFails, input.putFails)
    /\ UNCHANGED <<base, track, input>>

CallOrgMappingContains ==
    /\ input.fn = "OrgMappingContains"
    /\ output = NoCall
    /\ output' = [val |-> OrgMappingContains(input.orgMapping, input.orgID)]
    /\ UNCHANGED <<base, track, input>>

\* OrgMappingContains on the document BuildOrgMapping produced.
CallContainsEncoded ==
    /\ input.fn = "ContainsEncoded"
    /\ output = NoCall
    /\ output' = [val |-> OrgMappingContains(BuildOrgMapping(input.tenants), input.orgID),
                  doc |-> BuildOrgMapping(input.tenants)]
    /\ UNCHANGED <<base, track, input>>

CallHandler ==
    /\ input.fn = "Handler"
    /\ output = NoCall
    /\ output' = assertTenant(input.handler, input.mg)
    /\ UNCHANGED <<base, track, input>>

PureNext ==
    \/ CallObserve
    \/ CallIsUpToDate
    \/ CallBuildOrgMapping
    \/ CallSyncOrgMapping
    \/ CallOrgMappingContains
    \/ CallContainsEncoded
    \/ CallHandler

PureSpec == PureInit /\ [][PureNext]_vars

\* ------------------------------------------------------------- properties

\* BuildOrgMapping over the Tenants the cluster holds now, in each order a
\* listing may return them.
\* The orders in which a listing may return the Tenants of st.
OrdersOf(st) ==
    LET here == {t \in UIDs : st[t].present}
    IN  {f \in [1..Cardinality(here) -> here] :
            \A i, j \in 1..Cardinality(here) : i # j => f[i] # f[j]}

\* The settings s hold BuildOrgMapping of the Tenants of st, in a listing's order.
ConvergedIn(st, s) ==
    \E o \in OrdersOf(st) :
        Document(s) = BuildOrgMapping([i \in 1..Len(o) |-> MappingOf(st[o[i]])])

Converged == ConvergedIn(store, sso)

\* Since the last change of a Tenant or of the settings a sync has replaced the
\* settings from a stale listing, and after that, with no reconcile from a stale
\* listing still running, each of the two or more Tenants has been reconciled once
\* more without a failed call.
AllCycled == raced /\ Cardinality(Present) > 1 /\ \A t \in Present : done[t] # "no"

\* C1 as stated: after a race between reconciles working from a stale and a
\* fresh listing, once every tenant has been reconciled once more the
\* org_mapping document is BuildOrgMapping of the current Tenants.  (Stated for
\* the runs in which no call to the cluster or to Grafana ever failed.)
C1_ConvergedAfterOneMoreCycle == (AllCycled /\ failures = 0) => Converged

\* C1, amended: the same, provided at least one of those further reconciles ran a
\* sync that replaced the settings (its Observe did not report Synced).
C1_ConvergedAfterOneMoreSync ==
    (AllCycled /\ \E t \in Present : done[t] = "wrote") => Converged

\* A replace from a stale listing has landed and every tenant has since been
\* reconciled again, one of them with a sync.
C1_Witness ==
    /\ AllCycled
    /\ \E t \in Present : done[t] = "wrote"

\* Every reconcile from here on would end in Observe reporting Synced: each
\* Tenant is idle, created, not being deleted, up to date, and its drift check
\* finds nothing.
AtRest ==
    /\ Present # {}
    /\ \A t \in Present :
        /\ pc[t] = "idle"
        /\ store[t].externalName # ""
        /\ ~store[t].deletionTimestamp
        /\ isUpToDate(store[t])
        /\ ~isGrafanaDrifted(store[t], sso, FALSE).drifted

\* C2 as stated, in the form a finite run refutes: if the document eventually
\* equals BuildOrgMapping of the current Tenants once nothing changes any more,
\* then a state in which every further reconcile only reports Synced (so the
\* document is never written again) must already hold that document.  (Stated
\* for the runs in which no call ever failed and no Tenant was removed.)
C2_AtRestIsConverged == (AtRest /\ failures = 0 /\ Present = UIDs) => Converged

\* The sync of u has listed the Tenants, and what it holds is what a listing of
\* the cluster would give it now.
ListingCurrent(u) ==
    /\ pc[u] \in {"fetch", "replace"}
    /\ \E o \in ListOrders : snap[u] = Mappings(Items(o), u, FALSE)

\* No Tenant is edited, deleted or removed and nobody else changes the settings
\* in this step, and every sync that has listed the Tenants holds what a listing
\* would give it now.
NothingOutdated ==
    /\ edits' = edits
    /\ \A u \in UIDs : store'[u].present = store[u].present
    /\ \A u \in UIDs : pc[u] \in {"fetch", "replace"} => ListingCurrent(u)

\* C2, amended: whatever calls failed, races were lost or edits from outside
\* happened before, every replace completed by a sync whose listing is what the
\* cluster holds now sets the document to BuildOrgMapping of the current Tenants;
\* and a document equal to it remains equal to it in every step in which no
\* Tenant is edited, deleted or removed, nobody else changes the settings and no
\* sync works from a listing other than the current one.  (Whether a replace
\* happens at all depends on some Observe reporting Absent or ExistsNotSynced.)
C2_ReplaceConvergesAndStays ==
    [][ /\ \A t \in UIDs :
            (sent'.by = t /\ failures' = failures /\ ListingCurrent(t))
                => ConvergedIn(store', sso')
        /\ (Converged /\ NothingOutdated) => ConvergedIn(store', sso') ]_vars

\* After a failed call and a change of a Tenant, a sync whose listing was the
\* current one has just replaced the settings, and the document is
\* BuildOrgMapping of the current Tenants, which yields entries.
C2_Witness ==
    /\ edits > 0
    /\ failures > 0
    /\ \E u \in Present : store[u].spec.OrgID = <<"p">>
    /\ sent.by \in Present
    /\ sso = MapSSO(sent.body)
    /\ \E o \in ListOrders : sent.tenants = Mappings(Items(o), sent.by, FALSE)
    /\ Converged
    /\ Document(sso) # <<>>

\* C3 as stated: a tenant whose written entries a peer's replace has dropped is
\* not reported Synced by its next Observe (with Grafana reachable): the Observe
\* asks for the Update that rewrites the document.
C3_LostRaceHeals ==
    [][ \A t \in UIDs :
            (lost[t] = "lost" /\ Observe(t) /\ failures' = failures)
                => obsRes'[t] = "ExistsNotSynced" ]_vars

\* C3, amended: the same, unless the document holds an entry literally equal to
\* <orgId>:<orgId>:Viewer for the tenant's orgId; and the replace of the Update
\* that follows writes a document that holds every entry of the tenant.
C3_LostRaceHealsUnlessSelfEntry ==
    [][ \A t \in UIDs :
            /\ (/\ lost[t] = "lost"
                /\ Observe(t)
                /\ failures' = failures
                /\ ~OrgMappingContains(Document(sso), store[t].spec.OrgID))
                   => (obsRes'[t] = "ExistsNotSynced" /\ pc'[t] = "update")
            /\ (/\ lost[t] = "healing"
                /\ SyncReplace(t)
                /\ failures' = failures)
                   => HasAll(store'[t], Document(sso')) ]_vars

\* A tenant lost its entries to a peer's replace, its next Observe asked for an
\* Update, and that Update's replace has restored the entries.
C3_Witness ==
    \E t \in Present :
        /\ lost[t] = "healed"
        /\ sent.by = t
        /\ sent.op = "Update"
        /\ HasAll(store[t], Document(sso))

\* C4: the settings every UpdateProviderSettings carries hold, for each key but
\* orgMapping, the value the same sync fetched, hold no further key, and hold
\* BuildOrgMapping of the sync's tenants under orgMapping.
C4_OtherKeysPreserved ==
    sent.by # 0 =>
        /\ DOMAIN sent.body = (DOMAIN sent.fetched) \cup {"orgMapping"}
        /\ \A k \in (DOMAIN sent.fetched) \ {"orgMapping"} : sent.body[k] = sent.fetched[k]
        /\ sent.body["orgMapping"] = BuildOrgMapping(sent.tenants)

\* A replace was sent whose fetch had returned another key and an older mapping.
C4_Witness ==
    /\ sent.by # 0
    /\ "clientId" \in DOMAIN sent.fetched
    /\ "orgMapping" \in DOMAIN sent.fetched
    /\ sent.body["orgMapping"] # sent.fetched["orgMapping"]

\* Another Tenant of the cluster carries t's tenantId.
Duplicated(t) ==
    \E u \in Present \ {t} : store[u].spec.TenantID = store[t].spec.TenantID

\* Another Tenant of the cluster carries the tenantId of the object t's Create
\* works on.
CrDuplicated(t) ==
    \E u \in Present \ {t} : store[u].spec.TenantID = managed[t].spec.TenantID

\* C5: a Create for a Tenant whose tenantId another Tenant carries fails, with
\* the conflict error when the listing succeeded, and changes nothing: no call
\* to Grafana, no external name, no status.
C5_ConflictHasNoEffect ==
    [][ \A t \in UIDs :
            (Create(t) /\ CrDuplicated(t)) =>
                /\ res'[t].op = "Create"
                /\ res'[t].err = IF failures' = failures THEN "conflict" ELSE "list"
                /\ store' = store
                /\ store'[t].externalName = ""
                /\ store'[t].atProvider = EmptyObservation
                /\ sso' = sso
                /\ sent' = NoPut
                /\ calls'[t] = 0
                /\ pc'[t] = "idle" ]_vars

\* A Create was refused with the conflict error.
C5_Witness ==
    \E t \in Present :
        /\ res[t].op = "Create"
        /\ res[t].err = "conflict"
        /\ Duplicated(t)
        /\ store[t].externalName = ""

\* A Tenant counts as created once it holds an observation.
Created(t) == store[t].present /\ store[t].atProvider # EmptyObservation

\* C6 as stated: no two created Tenants carry the same tenantId.
C6_CreatedTenantIDsUnique ==
    \A t, u \in UIDs :
        (t # u /\ Created(t) /\ Created(u))
            => store[t].spec.TenantID # store[u].spec.TenantID

\* C6, amended: whenever a Create passes its uniqueness check, no other Tenant
\* that its listing returned carries the same tenantId at that moment.
C6_UniqueWhenCheckPasses ==
    [][ \A t \in UIDs :
            (Create(t) /\ pc'[t] = "list") => ~CrDuplicated(t) ]_vars

\* A Create passed the check next to another Tenant that is already created.
C6_Witness ==
    \E t, u \in Present :
        /\ t # u
        /\ op[t] = "Create"
        /\ pc[t] = "list"
        /\ lists[t] = 1
        /\ Created(u)
        /\ store[u].spec.TenantID # store[t].spec.TenantID

\* C7: with the listing at hand, Create's uniqueness check fails exactly when
\* another Tenant carries the same tenantId (the Tenant's own item never
\* counts); only Create reports a conflict, and Update, Delete and the Observe
\* of a deleted Tenant list the Tenants once, for the sync alone.
C7_CheckFailsIffOtherHoldsID ==
    [][ /\ \A t \in UIDs :
            (Create(t) /\ failures' = failures) =>
                /\ (res'[t].err = "conflict") <=> CrDuplicated(t)
                /\ (pc'[t] = "list") <=> ~CrDuplicated(t)
        /\ \A t \in UIDs :
            /\ res'[t].err = "conflict" => res'[t].op = "Create"
            /\ op'[t] \in {"Update", "Delete", "ObserveDelete"} => lists'[t] <= 1 ]_vars

\* An Update has listed the Tenants once, for its sync, while another Tenant
\* carries the same tenantId.
C7_Witness ==
    \E t \in Present :
        /\ op[t] = "Update"
        /\ pc[t] = "fetch"
        /\ lists[t] = 1
        /\ Duplicated(t)

\* C8: a Create whose sync failed leaves the Tenant without external name and
\* without observation.
C8_FailedCreateLeavesNoMark ==
    \A t \in UIDs :
        (store[t].present /\ res[t].op = "Create" /\ res[t].err = "sync")
            => (store[t].externalName = "" /\ store[t].atProvider = EmptyObservation)

\* What syncStatus leaves in the status for a spec.
Mirrors(spec, status) ==
    /\ status.TenantID = spec.TenantID
    /\ status.OrgID = spec.OrgID
    /\ status.Admins = spec.Admins
    /\ status.ViewerGroups = spec.ViewerGroups
    /\ status.EditorGroups = spec.EditorGroups
    /\ status.Retention = spec.Retention
    /\ status.LastUpdated # 0

\* t's handler is in its sync.
InSync(t) == pc[t] \in {"list", "fetch", "replace"}

\* The step with which t's Create returns without error.
CreateSucceeds(t) == SyncReplace(t) /\ op[t] = "Create" /\ failures' = failures

\* C9 as stated: a successful Create leaves the external name equal to the
\* tenantId, the observation equal to the desired fields with lastUpdated set,
\* and the document equal to BuildOrgMapping of the Tenants of the cluster.
C9_CreateWritesCurrentSet ==
    [][ \A t \in UIDs :
            CreateSucceeds(t) =>
                /\ res'[t].err = "none"
                /\ store'[t].externalName = store'[t].spec.TenantID
                /\ Mirrors(store'[t].spec, store'[t].atProvider)
                /\ ConvergedIn(store', sso') ]_vars

\* C9, amended: a successful Create leaves the external name equal to the
\* tenantId of the object it was handed, the observation equal to that
\* object's desired fields with lastUpdated set, and the document equal to
\* BuildOrgMapping of the Tenants this Create's sync listed, this Tenant, as the
\* cluster held it then, among them.
C9_CreateWritesListedSet ==
    [][ \A t \in UIDs :
            /\ (op[t] = "Create" /\ SyncList(t) /\ failures' = failures) =>
                    \E i \in 1..Len(snap'[t]) : snap'[t][i] = MappingOf(store[t])
            /\ (Create(t) /\ pc'[t] = "list") =>
                    /\ store'[t].externalName = managed[t].spec.TenantID
                    /\ Mirrors(managed[t].spec, store'[t].atProvider)
            /\ (op[t] = "Create" /\ InSync(t)) =>
                    /\ store'[t].externalName = store[t].externalName
                    /\ store'[t].atProvider = store[t].atProvider
            /\ CreateSucceeds(t) =>
                    /\ res'[t].err = "none"
                    /\ Document(sso') = BuildOrgMapping(snap[t]) ]_vars

\* A Create has just returned without error after listing two Tenants, and the
\* document holds entries.
C9_Witness ==
    \E t \in Present :
        /\ sent.by = t
        /\ sent.op = "Create"
        /\ Len(sent.tenants) = 2
        /\ res[t].op = "Create"
        /\ res[t].err = "none"
        /\ ~res[t].syncFailed
        /\ Document(sso) # <<>>

\* C10: Update overwrites the observation with the desired fields of the
\* object it was handed, its sync leaves the observation alone, and it returns
\* no error whether that sync succeeded or failed.
C10_UpdateAlwaysSucceeds ==
    [][ \A t \in UIDs :
            /\ Update(t) => Mirrors(managed[t].spec, store'[t].atProvider)
            /\ (op[t] = "Update" /\ InSync(t)) => store'[t].atProvider = store[t].atProvider
            /\ (op[t] = "Update" /\ InSync(t) /\ ~InSync(t)') =>
                    /\ res'[t].op = "Update"
                    /\ res'[t].err = "none"
                    /\ pc'[t] = "idle" ]_vars

\* An Update whose sync failed has returned, and the observed orgId is the
\* edited one.
C10_Witness ==
    \E t \in Present :
        /\ res[t].op = "Update"
        /\ res[t].syncFailed
        /\ res[t].err = "none"
        /\ store[t].atProvider.OrgID = <<"p">>

\* The Tenant declares a viewer or an editor group.
HasGroups(cr) == Len(cr.spec.ViewerGroups) > 0 \/ Len(cr.spec.EditorGroups) > 0

\* The settings are a map whose orgMapping holds <orgId>:<orgId>:Viewer.
HoldsSelfEntry(s, orgID) == s.kind = "Map" /\ OrgMappingContains(Document(s), orgID)

\* t's last handler was an Update whose sync failed, and t's next Observe runs
\* with Grafana reachable.
ObserveAfterFailedUpdate(t) ==
    /\ res[t].op = "Update"
    /\ res[t].syncFailed
    /\ Observe(t)
    /\ failures' = failures

\* C11 as stated: the Observe that follows an Update whose sync failed reports
\* ExistsNotSynced, so that Update runs again.
C11_FailedUpdateIsRetried ==
    [][ \A t \in UIDs :
            ObserveAfterFailedUpdate(t) => obsRes'[t] = "ExistsNotSynced" ]_vars

\* C11, amended: that Observe, handed a Tenant left unchanged since the
\* Update, reports ExistsNotSynced exactly when the Tenant declares a viewer or
\* editor group and the settings hold no entry <orgId>:<orgId>:Viewer for its
\* orgId; otherwise it reports Synced and the failed sync is not retried.
C11_FailedUpdateIsRetriedOnDrift ==
    [][ \A t \in UIDs :
            (ObserveAfterFailedUpdate(t) /\ isUpToDate(managed[t])) =>
                /\ obsRes'[t] \in {"ExistsNotSynced", "Synced"}
                /\ (obsRes'[t] = "ExistsNotSynced") <=>
                        (HasGroups(managed[t]) /\ ~HoldsSelfEntry(sso, managed[t].spec.OrgID))
                /\ (pc'[t] = "update") <=> (obsRes'[t] = "ExistsNotSynced") ]_vars

\* An Observe that followed an Update whose sync failed has asked for the
\* Update again.
C11_Witness ==
    \E t \in Present :
        /\ res[t].afterFailedUpdate
        /\ obsRes[t] = "ExistsNotSynced"
        /\ pc[t] = "update"
        /\ isUpToDate(managed[t])

\* The Tenant object is created, carries no deletionTimestamp and its
\* observation equals its desired state.
SettledObject(cr) ==
    /\ cr.present
    /\ cr.externalName # ""
    /\ ~cr.deletionTimestamp
    /\ isUpToDate(cr)

\* t is such a Tenant, and its reconcile works on the object as the cluster
\* holds it.
Settled(t) == SettledObject(store[t]) /\ managed[t] = store[t]

\* C12: a reconcile of a Tenant whose observation equals its desired state,
\* while the document is BuildOrgMapping of the current Tenants, reports Synced,
\* writes nothing and triggers no Create, Update or Delete, with or without groups.
C12_ConvergedCycleIsNoOp ==
    [][ \A t \in UIDs :
            (Settled(t) /\ Observe(t) /\ failures' = failures /\ Converged) =>
                /\ obsRes'[t] = "Synced"
                /\ pc'[t] = "idle"
                /\ sso' = sso
                /\ sent' = NoPut ]_vars

\* Some entry of the document carries orgID in its organization field, whatever
\* its subject and role.
NamesOrg(doc, orgID) ==
    LET parts == Split(doc, ",")
    IN  \E i \in 1..Len(parts) :
            LET f == Split(TrimSpace(parts[i]), ":")
            IN  Len(f) >= 3 /\ f[Len(f) - 1] = orgID

\* C13: Observe of a settled Tenant that declares a viewer or editor group
\* fetches the settings once and reports Synced when the document has an entry
\* for the Tenant's orgId, ExistsNotSynced when it has none.
C13_DriftIffNoEntryForOrg ==
    [][ \A t \in UIDs :
            (/\ Settled(t)
             /\ HasGroups(store[t])
             /\ sso.kind = "Map"
             /\ Observe(t)
             /\ failures' = failures) =>
                /\ calls'[t] = 1
                /\ obsRes'[t] =
                    IF NamesOrg(Document(sso), store[t].spec.OrgID)
                    THEN "Synced" ELSE "ExistsNotSynced" ]_vars

\* C14: an Observe whose drift check failed was handed a Tenant whose
\* observation equals its desired state; it reports Synced, returns no error
\* and ends the reconcile.
C14_DriftErrorIsIgnored ==
    [][ \A t \in UIDs :
            (Observe(t) /\ failures' # failures) =>
                /\ SettledObject(managed[t])
                /\ HasGroups(managed[t])
                /\ calls'[t] = 1
                /\ obsRes'[t] = "Synced"
                /\ pc'[t] = "idle"
                /\ res'[t].err = "none"
                /\ res'[t].syncFailed
                /\ store' = store
                /\ sso' = sso ]_vars

\* An Observe whose drift check failed has reported Synced although the
\* document holds no entry <orgId>:<orgId>:Viewer.
C14_Witness ==
    \E t \in Present :
        /\ res[t].op = "none"
        /\ res[t].syncFailed
        /\ obsRes[t] = "Synced"
        /\ pc[t] = "idle"
        /\ calls[t] = 1
        /\ edits = 0
        /\ ~HoldsSelfEntry(sso, store[t].spec.OrgID)

\* The mapping sequences a listing yields once t is left out.
ListedWithout(t) ==
    LET rest == Present \ {t}
        orders == {f \in [1..Cardinality(rest) -> rest] :
                      \A i, j \in 1..Cardinality(rest) : i # j => f[i] # f[j]}
    IN  {[i \in 1..Len(o) |-> MappingOf(store[o[i]])] : o \in orders}

\* C15: Observe of a created Tenant with a deletionTimestamp runs one sync of
\* the mappings of every listed Tenant but this one, and then reports Absent
\* without error, whether the listing, the fetch or the replace failed or not.
C15_ObserveOfDeletedUnsyncs ==
    [][ \A t \in UIDs :
            /\ ObserveDeleting(t) =>
                    (store[t].externalName # "" /\ op'[t] = "ObserveDelete" /\ pc'[t] = "list")
            /\ (op[t] = "ObserveDelete" /\ SyncList(t) /\ failures' = failures) =>
                    snap'[t] \in ListedWithout(t)
            /\ (op[t] = "ObserveDelete" /\ SyncReplace(t)) =>
                    (sent'.tenants = snap[t] /\ sent'.body["orgMapping"] = BuildOrgMapping(snap[t]))
            /\ (op[t] = "ObserveDelete" /\ InSync(t) /\ ~InSync(t)') =>
                    /\ obsRes'[t] = "Absent"
                    /\ pc'[t] = "deleted"
                    /\ res'[t].err = "none"
                    /\ (failures' # failures) => res'[t].syncFailed
                    /\ lists'[t] = 1
                    /\ calls'[t] <= 2
                    /\ store' = store ]_vars

\* The Observe of a deleted Tenant has reported Absent after its sync failed.
C15_Witness ==
    \E t \in Present :
        /\ op[t] = "ObserveDelete"
        /\ store[t].externalName # ""
        /\ store[t].deletionTimestamp
        /\ obsRes[t] = "Absent"
        /\ pc[t] = "deleted"
        /\ res[t].syncFailed

\* C16: Delete runs one sync of the mappings of every listed Tenant but the
\* deleted one, Tenants of the same orgId included, and returns without error
\* whether that sync failed or not.
C16_DeleteAlwaysSucceeds ==
    [][ \A t \in UIDs :
            /\ (op[t] = "Delete" /\ SyncList(t) /\ failures' = failures) =>
                    snap'[t] \in ListedWithout(t)
            /\ (op[t] = "Delete" /\ SyncReplace(t)) =>
                    (sent'.tenants = snap[t] /\ sent'.body["orgMapping"] = BuildOrgMapping(snap[t]))
            /\ (op[t] = "Delete" /\ InSync(t) /\ ~InSync(t)') =>
                    /\ res'[t].op = "Delete"
                    /\ res'[t].err = "none"
                    /\ (failures' # failures) => res'[t].syncFailed
                    /\ lists'[t] = 1
                    /\ calls'[t] <= 2
                    /\ store' = store ]_vars

\* A Delete has replaced the settings with the entries of the Tenant that
\* shares the deleted Tenant's orgId.
C16_Witness ==
    \E t \in Present :
        /\ sent.by = t
        /\ sent.op = "Delete"
        /\ res[t].op = "Delete"
        /\ ~res[t].syncFailed
        /\ Len(sent.tenants) = 1
        /\ sent.tenants[1].OrgID = store[t].spec.OrgID
        /\ Document(sso) # <<>>

\* C17: Observe of a Tenant without external name reports Absent without
\* error and calls neither Grafana nor the cluster.
C17_ObserveOfUncreatedIsAbsent ==
    [][ \A t \in UIDs :
            (Observe(t) /\ managed[t].externalName = "") =>
                /\ obsRes'[t] = "Absent"
                /\ res'[t].err = "none"
                /\ ~res'[t].syncFailed
                /\ calls'[t] = 0
                /\ lists'[t] = 0
                /\ failures' = failures
                /\ sent' = NoPut
                /\ sso' = sso
                /\ store' = store
                /\ store[t].atProvider = EmptyObservation ]_vars

\* Observe has reported Absent for a Tenant with groups that was never created.
C17_Witness ==
    \E t \in Present :
        /\ store[t].externalName = ""
        /\ store[t].atProvider = EmptyObservation
        /\ HasGroups(store[t])
        /\ obsRes[t] = "Absent"
        /\ pc[t] = "create"
        /\ calls[t] = 0
        /\ lists[t] = 0

\* Some field isUpToDate is to compare differs between desired and observed.
Differs(cr) ==
    \/ cr.spec.TenantID # cr.atProvider.TenantID
    \/ cr.spec.OrgID # cr.atProvider.OrgID
    \/ cr.spec.Admins # cr.atProvider.Admins
    \/ cr.spec.ViewerGroups # cr.atProvider.ViewerGroups
    \/ cr.spec.EditorGroups # cr.atProvider.EditorGroups
    \/ cr.spec.Retention # cr.atProvider.Retention

\* C18: for a created Tenant without deletionTimestamp whose desired fields
\* differ from its observation, Observe reports ExistsNotSynced without
\* fetching the settings; it reports Synced only when the fields agree and the
\* drift check reported no drift (no groups, the entry found, or the check failed).
C18_LocalDifferenceNeedsNoFetch ==
    (input.fn = "Observe" /\ output # NoCall
        /\ input.cr.externalName # "" /\ ~input.cr.deletionTimestamp) =>
            /\ output.exists
            /\ Differs(input.cr) => (~output.upToDate /\ output.gets = 0)
            /\ output.upToDate =>
                /\ ~Differs(input.cr)
                /\ \/ ~HasGroups(input.cr)
                   \/ input.getFails
                   \/ HoldsSelfEntry(input.settings, input.cr.spec.OrgID)

\* Observe has reported ExistsNotSynced, without a fetch, for a created Tenant
\* with groups whose observation is empty.
C18_Witness ==
    /\ input.fn = "Observe"
    /\ output # NoCall
    /\ input.cr.externalName # ""
    /\ ~input.cr.deletionTimestamp
    /\ input.cr.atProvider = EmptyObservation
    /\ HasGroups(input.cr)
    /\ output.exists
    /\ ~output.upToDate
    /\ output.gets = 0

\* Desired state and observation agree on every mirrored field, the admin
\* groups included.
AgreeOnMirrored(cr) ==
    /\ cr.spec.TenantID = cr.atProvider.TenantID
    /\ cr.spec.OrgID = cr.atProvider.OrgID
    /\ cr.spec.Admins = cr.atProvider.Admins
    /\ cr.spec.ViewerGroups = cr.atProvider.ViewerGroups
    /\ cr.spec.EditorGroups = cr.atProvider.EditorGroups
    /\ cr.spec.AdminGroups = cr.atProvider.AdminGroups
    /\ cr.spec.Retention.Logs = cr.atProvider.Retention.Logs
    /\ cr.spec.Retention.Metrics = cr.atProvider.Retention.Metrics
    /\ cr.spec.Retention.Traces = cr.atProvider.Retention.Traces
    /\ cr.spec.Retention.Profiles = cr.atProvider.Retention.Profiles

\* C19: isUpToDate is true exactly when desired state and observation agree on
\* tenantId, orgId, admins, viewer, editor and admin groups and the four
\* retention strings; lastUpdated is not compared.
C19_UpToDateIffMirroredAgree ==
    (input.fn = "isUpToDate" /\ output # NoCall) =>
        (output.val <=> AgreeOnMirrored(input.cr))

\* The entries of one declared tenant: viewer, editor, then admin groups.
DeclaredEntries(t) ==
    [i \in 1..Len(t.ViewerGroups) |-> Entry(escapeColon(t.ViewerGroups[i]), t.OrgID, Viewer)]
    \o
    [i \in 1..Len(t.EditorGroups) |-> Entry(escapeColon(t.EditorGroups[i]), t.OrgID, Editor)]
    \o
    [i \in 1..Len(t.AdminGroups) |->
        Entry(escapeColon(t.AdminGroups[i]), t.OrgID, <<"A", "d", "m", "i", "n">>)]

\* C20: BuildOrgMapping emits the entries tenant by tenant in input order,
\* within a tenant the viewer, then the editor, then the admin groups in their
\* order, each as subject:orgId:Role, joined by single commas.
C20_EntriesInOrderWithAdmins ==
    (input.fn = "BuildOrgMapping" /\ output # NoCall) =>
        output.val =
            Join(Flatten([k \in 1..Len(input.tenants) |-> DeclaredEntries(input.tenants[k])]),
                 <<",">>)

Admin == <<"A", "d", "m", "i", "n">>

\* C21: the document a sync writes holds, for every tenant that declares admin
\* groups, one entry group:orgId:Admin per admin group, after that tenant's
\* Editor entries.
C21_SyncWritesAdminEntries ==
    (input.fn = "SyncOrgMapping" /\ output # NoCall /\ output.puts = 1) =>
        LET parts == Split(output.body["orgMapping"], ",")
        IN  \A k \in 1..Len(input.tenants) :
                LET t == input.tenants[k]
                IN  \A i \in 1..Len(t.AdminGroups) :
                        \E j \in 1..Len(parts) :
                            /\ parts[j] = Entry(escapeColon(t.AdminGroups[i]), t.OrgID, Admin)
                            /\ \A e \in 1..Len(t.EditorGroups) :
                                    \E h \in 1..(j - 1) :
                                        parts[h] =
                                            Entry(escapeColon(t.EditorGroups[e]), t.OrgID, Editor)

\* The tenant declares no group in any category.
Groupless(t) ==
    Len(t.ViewerGroups) = 0 /\ Len(t.EditorGroups) = 0 /\ Len(t.AdminGroups) = 0

\* C22: BuildOrgMapping of the empty sequence, and of any sequence in which no
\* tenant declares a group, is the empty string, and tenants without groups
\* add nothing to the encoding of the others: no default entry is emitted.
C22_GrouplessTenantsAddNothing ==
    (input.fn = "BuildOrgMapping" /\ output # NoCall) =>
        /\ (\A k \in 1..Len(input.tenants) : Groupless(input.tenants[k])) => output.val = <<>>
        /\ output.val = BuildOrgMapping(SelectSeq(input.tenants, LAMBDA t : ~Groupless(t)))

\* BuildOrgMapping has returned the empty string for two tenants without groups.
C22_Witness ==
    /\ input.fn = "BuildOrgMapping"
    /\ output # NoCall
    /\ Len(input.tenants) = 2
    /\ \A k \in 1..Len(input.tenants) : Groupless(input.tenants[k])
    /\ output.val = <<>>

\* How many colons s holds up to position i.
ColonsUpTo(s, i) == Cardinality({j \in 1..i : s[j] = ":"})

\* s with a backslash put before each colon, position by position.
EscapedForm(s) ==
    [q \in 1..(Len(s) + ColonsUpTo(s, Len(s))) |->
        IF \E i \in 1..Len(s) : q = i + ColonsUpTo(s, i)
        THEN s[CHOOSE i \in 1..Len(s) : q = i + ColonsUpTo(s, i)]
        ELSE "\\"]

\* The viewer and editor entries of a tenant with the subject in escaped form
\* and orgId and role as they are.
VerbatimEntries(t) ==
    [i \in 1..Len(t.ViewerGroups) |->
        EscapedForm(t.ViewerGroups[i]) \o <<":">> \o t.OrgID \o <<":">> \o Viewer]
    \o
    [i \in 1..Len(t.EditorGroups) |->
        EscapedForm(t.EditorGroups[i]) \o <<":">> \o t.OrgID \o <<":">> \o Editor]

\* C23: in every entry BuildOrgMapping emits, each colon of the group claim is
\* preceded by a backslash and nothing else of it is changed, and the orgId and
\* the role follow verbatim, colons of the orgId included.
C23_OnlySubjectColonsEscaped ==
    (input.fn = "BuildOrgMapping" /\ output # NoCall) =>
        output.val =
            Join(Flatten([k \in 1..Len(input.tenants) |-> VerbatimEntries(input.tenants[k])]),
                 <<",">>)

\* BuildOrgMapping has encoded a group claim with a colon for an orgId with a colon.
C23_Witness ==
    /\ input.fn = "BuildOrgMapping"
    /\ output # NoCall
    /\ Len(input.tenants) = 1
    /\ input.tenants[1].OrgID = <<"o", ":", "1">>
    /\ input.tenants[1].ViewerGroups = <<<<"g", ":", "g">>>>
    /\ output.val = <<"g", "\\", ":", "g", ":", "o", ":", "1", ":">> \o Viewer

\* s[k] is the character c and no backslash stands right before it.
UnescapedAt(s, k, c) == s[k] = c /\ (k = 1 \/ s[k - 1] # "\\")

RECURSIVE SplitUnescaped(_, _)
\* s cut at every c that no backslash escapes.
SplitUnescaped(s, c) ==
    IF \A k \in 1..Len(s) : ~UnescapedAt(s, k, c) THEN <<s>>
    ELSE LET i == CHOOSE k \in 1..Len(s) :
                      UnescapedAt(s, k, c) /\ \A j \in 1..(k - 1) : ~UnescapedAt(s, j, c)
         IN  <<SubSeq(s, 1, i - 1)>> \o SplitUnescaped(SubSeq(s, i + 1, Len(s)), c)

RECURSIVE Unescape(_)
\* Every backslash-colon of s turned back into a colon.
Unescape(s) ==
    IF s = <<>> THEN <<>>
    ELSE IF Len(s) >= 2 /\ s[1] = "\\" /\ s[2] = ":"
    THEN <<":">> \o Unescape(SubSeq(s, 3, Len(s)))
    ELSE <<s[1]>> \o Unescape(Tail(s))

\* The subjects read back from a document: its entries are cut at unescaped
\* commas, the subject is the first field up to an unescaped colon, unescaped.
DecodedSubjects(doc) ==
    LET es == SplitUnescaped(doc, ",")
    IN  [i \in 1..Len(es) |-> Unescape(SplitUnescaped(es[i], ":")[1])]

\* The group claims BuildOrgMapping encodes, in the order of their entries.
EncodedSubjects(tenants) ==
    Flatten([k \in 1..Len(tenants) |-> tenants[k].ViewerGroups \o tenants[k].EditorGroups])

HasChar(s, c) == \E i \in 1..Len(s) : s[i] = c

\* C24 as stated: whenever a group claim holds a colon, the subjects read back
\* from BuildOrgMapping's output are the group claims that were encoded,
\* whatever commas and backslashes they hold.
C24_SubjectsRoundTrip ==
    (/\ input.fn = "BuildOrgMapping"
     /\ output # NoCall
     /\ \E i \in 1..Len(EncodedSubjects(input.tenants)) :
            HasChar(EncodedSubjects(input.tenants)[i], ":")) =>
        DecodedSubjects(output.val) = EncodedSubjects(input.tenants)

\* A group claim the escaping cannot protect: it holds a comma or ends in a backslash.
Unprotected(s) == HasChar(s, ",") \/ (s # <<>> /\ s[Len(s)] = "\\")

\* C24 amended: whenever a group claim holds a colon, no group claim holds a
\* comma or ends in a backslash and no orgId holds a comma, the subjects read
\* back from BuildOrgMapping's output are the group claims that were encoded.
C24_SubjectsRoundTripWithoutCommas ==
    (/\ input.fn = "BuildOrgMapping"
     /\ output # NoCall
     /\ \E i \in 1..Len(EncodedSubjects(input.tenants)) :
            HasChar(EncodedSubjects(input.tenants)[i], ":")
     /\ \A i \in 1..Len(EncodedSubjects(input.tenants)) :
            ~Unprotected(EncodedSubjects(input.tenants)[i])
     /\ \A k \in 1..Len(input.tenants) : ~HasChar(input.tenants[k].OrgID, ",")) =>
        DecodedSubjects(output.val) = EncodedSubjects(input.tenants)

\* A group claim with a backslash and two colons has been encoded and reads back.
C24_Witness ==
    /\ input.fn = "BuildOrgMapping"
    /\ output # NoCall
    /\ EncodedSubjects(input.tenants) = <<<<"\\", ":", ":">>>>
    /\ DecodedSubjects(output.val) = <<<<"\\", ":", ":">>>>

\* C25 as stated: OrgMappingContains is true exactly when, the document cut at
\* its unescaped commas and each entry trimmed, some entry is
\* <orgId>:<orgId>:Viewer; it is false for the empty document.
C25_SelfEntryAmongUnescapedParts ==
    (input.fn = "OrgMappingContains" /\ output # NoCall) =>
        LET es == SplitUnescaped(input.orgMapping, ",")
        IN  /\ output.val <=>
                \E i \in 1..Len(es) :
                    TrimSpace(es[i]) = Entry(input.orgID, input.orgID, Viewer)
            /\ input.orgMapping = <<>> => ~output.val

\* The stretches of doc between two neighbouring commas (or an end of doc), as
\* the positions <<l, r>> of their delimiters.
CommaFreeStretches(doc) ==
    { lr \in (0..Len(doc)) \X (1..(Len(doc) + 1)) :
        /\ lr[1] < lr[2]
        /\ lr[1] = 0 \/ doc[lr[1]] = ","
        /\ lr[2] = Len(doc) + 1 \/ doc[lr[2]] = ","
        /\ \A k \in (lr[1] + 1)..(lr[2] - 1) : doc[k] # "," }

\* C25 amended: OrgMappingContains is true exactly when some stretch of the
\* document between two commas, escaped or not, is <orgId>:<orgId>:Viewer once
\* trimmed; it is false for the empty document.
C25_SelfEntryAmongAllParts ==
    (input.fn = "OrgMappingContains" /\ output # NoCall) =>
        /\ output.val <=>
                \E lr \in CommaFreeStretches(input.orgMapping) :
                    TrimSpace(SubSeq(input.orgMapping, lr[1] + 1, lr[2] - 1)) =
                        Entry(input.orgID, input.orgID, Viewer)
        /\ input.orgMapping = <<>> => ~output.val

\* OrgMappingContains has found the entry, blanks around it, behind an escaped comma.
C25_Witness ==
    /\ input.fn = "OrgMappingContains"
    /\ output # NoCall
    /\ input.orgID = <<"o">>
    /\ input.orgMapping =
            <<"x", "\\", ",", " ">> \o Entry(<<"o">>, <<"o">>, Viewer) \o <<" ">>
    /\ output.val

\* C26: OrgMappingContains is true when some entry of the document carries the
\* orgId in its organization field, whatever its subject and role, and false
\* when none does or the document is empty.
C26_ContainsAnyEntryOfOrg ==
    (input.fn = "OrgMappingContains" /\ output # NoCall) =>
        /\ output.val <=> NamesOrg(input.orgMapping, input.orgID)
        /\ input.orgMapping = <<>> => ~output.val

\* Some tenant of the sequence with this orgId yields an entry that reads
\* <orgId>:<orgId>:Viewer once the white space around the entry is removed.
YieldsSelfEntry(tenants, orgID) ==
    \E k \in 1..Len(tenants) :
        /\ tenants[k].OrgID = orgID
        /\ \E i \in 1..Len(TenantEntries(tenants[k])) :
                TrimSpace(TenantEntries(tenants[k])[i]) = Entry(orgID, orgID, Viewer)

\* C27 as stated: OrgMappingContains(BuildOrgMapping(ts), orgId) is true exactly
\* when a tenant of ts with that orgId yields the entry <orgId>:<orgId>:Viewer.
C27_ContainsEncodedIffSelfEntry ==
    (input.fn = "ContainsEncoded" /\ output # NoCall) =>
        (output.val <=> YieldsSelfEntry(input.tenants, input.orgID))

\* No group claim holds a comma or ends in a backslash, no orgId holds a comma
\* or a colon.
PlainTenants(tenants) ==
    \A k \in 1..Len(tenants) :
        LET gs == tenants[k].ViewerGroups \o tenants[k].EditorGroups
        IN  /\ ~HasChar(tenants[k].OrgID, ",")
            /\ ~HasChar(tenants[k].OrgID, ":")
            /\ \A i \in 1..Len(gs) : ~Unprotected(gs[i])

\* C27 amended: for tenants whose group claims hold no comma and do not end in a
\* backslash and whose orgIds hold no comma or colon,
\* OrgMappingContains(BuildOrgMapping(ts), orgId), for any orgId looked up, is
\* true exactly when a tenant of ts with that orgId yields an entry that reads
\* <orgId>:<orgId>:Viewer once the white space around it is removed.
C27_ContainsEncodedIffSelfEntryPlain ==
    (input.fn = "ContainsEncoded" /\ output # NoCall /\ PlainTenants(input.tenants)) =>
        (output.val <=> YieldsSelfEntry(input.tenants, input.orgID))

\* The entry o:o:Viewer of the second of two tenants has been found, the first
\* having other entries for the same orgId.
C27_Witness ==
    /\ input.fn = "ContainsEncoded"
    /\ output # NoCall
    /\ PlainTenants(input.tenants)
    /\ Len(input.tenants) = 2
    /\ input.orgID = <<"o">>
    /\ input.tenants[1].OrgID = <<"o">>
    /\ input.tenants[1].ViewerGroups = <<<<"g">>>>
    /\ input.tenants[1].EditorGroups = <<<<"o">>>>
    /\ input.tenants[2].ViewerGroups = <<<<"o">>>>
    /\ input.tenants[2].OrgID = <<"o">>
    /\ output.val

\* C28: when GetProviderSettings answers 404, SyncOrgMapping does not fail on
\* it: it issues one replace whose settings hold the key orgMapping, set to
\* BuildOrgMapping of the tenants, and no other key, and it returns an error
\* only if that replace fails.
C28_NotFoundStartsFromEmpty ==
    (/\ input.fn = "SyncOrgMapping"
     /\ output # NoCall
     /\ input.settings.kind = "NotFound"
     /\ ~input.getFails) =>
        /\ output.err # "get"
        /\ output.puts = 1
        /\ DOMAIN output.body = {"orgMapping"}
        /\ output.body["orgMapping"] = BuildOrgMapping(input.tenants)
        /\ output.err = "none" <=> ~input.putFails
        /\ ~input.putFails => output.after = [kind |-> "Map", map |-> output.body]

\* A sync that found no settings has written a document of two entries.
C28_Witness ==
    /\ input.fn = "SyncOrgMapping"
    /\ output # NoCall
    /\ input.settings.kind = "NotFound"
    /\ output.err = "none"
    /\ output.puts = 1
    /\ output.after.kind = "Map"
    /\ DOMAIN output.after.map = {"orgMapping"}
    /\ Len(Split(output.after.map["orgMapping"], ",")) = 2

\* The fetch of a sync fails: GetProviderSettings fails with another error than
\* 404, or its payload is no settings map.
FetchFails(call) == call.getFails \/ call.settings.kind = "NotMap"

\* C29: SyncOrgMapping returns an error exactly when its fetch fails for
\* another reason than 404 or its replace fails; when the fetch fails no
\* replace is issued, and whenever it returns an error the settings stay as
\* they were.
C29_ErrorIffFetchOrReplaceFails ==
    (input.fn = "SyncOrgMapping" /\ output # NoCall) =>
        /\ output.err # "none" <=> (FetchFails(input) \/ (output.puts = 1 /\ input.putFails))
        /\ FetchFails(input) => output.puts = 0
        /\ ~FetchFails(input) => output.puts = 1
        /\ output.err # "none" => output.after = input.settings

\* A sync whose replace failed has returned the error and left the settings,
\* an orgMapping among them, as they were.
C29_Witness ==
    /\ input.fn = "SyncOrgMapping"
    /\ output # NoCall
    /\ ~input.getFails
    /\ input.putFails
    /\ output.err = "put"
    /\ output.puts = 1
    /\ input.settings.kind = "Map"
    /\ "orgMapping" \in DOMAIN input.settings.map
    /\ output.body["orgMapping"] # input.settings.map["orgMapping"]
    /\ output.after = input.settings

\* C30 as stated, for Update: an Update whose sync failed leaves the lastUpdated
\* the Tenant carried before it, the time of an earlier sync.
C30_FailedSyncKeepsLastUpdated ==
    \A t \in UIDs :
        (store[t].present /\ pc[t] = "idle" /\ res[t].op = "Update" /\ res[t].syncFailed) =>
            LastUpdated(store, t) = prior[t]

\* The step ends a Create of t whose sync failed.
FailedCreateEnds(t) == InSync(t) /\ op[t] = "Create" /\ failures' # failures

\* C30 amended: lastUpdated is stamped when the desired fields are copied into
\* the observation, before the sync: Update stamps the time it reads from the
\* clock and its sync, failed or not, leaves that stamp; Create stamps it once
\* the uniqueness check has passed and its sync, when it succeeds, leaves that
\* stamp; Observe, Delete and a Create the uniqueness check or a failed listing
\* rejects do not change it.  (Nothing is said of what a Create whose sync
\* failed leaves.)
C30_StampedBeforeSync ==
    [][ \A t \in UIDs :
            /\ Update(t) => (now \in Times /\ LastUpdated(store', t) = now)
            /\ (Create(t) /\ pc'[t] = "list") =>
                    (now \in Times /\ LastUpdated(store', t) = now)
            /\ (InSync(t) /\ ~FailedCreateEnds(t)) =>
                    LastUpdated(store', t) = LastUpdated(store, t)
            /\ (/\ store'[t].present
                /\ LastUpdated(store', t) # LastUpdated(store, t)
                /\ ~FailedCreateEnds(t)) =>
                    (pc[t] \in {"create", "update"} /\ pc'[t] = "list") ]_vars

\* After an edit of its spec, an Update of a Tenant created at another reading
\* of the clock has returned with its sync failed, and the Tenant carries the
\* time that Update read, not the one it carried before.
C30_Witness ==
    \E t \in Present :
        /\ edits > 0
        /\ store[t].spec.OrgID = <<"p">>
        /\ pc[t] = "idle"
        /\ res[t].op = "Update"
        /\ res[t].syncFailed
        /\ prior[t] \in Times
        /\ LastUpdated(store, t) = now
        /\ LastUpdated(store, t) # prior[t]

\* C31: Observe, Create, Update and Delete, handed a resource that is no
\* Tenant, return the type-mismatch error at once: the handler does not go on,
\* and has listed no Tenants, called Grafana or changed a status.
C31_NonTenantFailsAtOnce ==
    (input.fn = "Handler" /\ output # NoCall /\ input.mg.kind # "Tenant") =>
        /\ output.err = "errNotTenant"
        /\ ~output.entered
        /\ output.lists = 0
        /\ output.calls = 0
        /\ ~output.changed

\* Delete has returned the type-mismatch error for a resource of another kind.
C31_Witness ==
    /\ input.fn = "Handler"
    /\ input.handler = "Delete"
    /\ input.mg.kind = "Managed"
    /\ output # NoCall
    /\ output.err = "errNotTenant"
    /\ ~output.entered

\* The listing of t's running Create, Update or Delete fails in this step.
ListingFails(t) ==
    /\ Create(t) \/ (SyncList(t) /\ op[t] \in {"Create", "Update", "Delete"})
    /\ failures' # failures

\* C32 as stated: a Create, Update or Delete whose listing of the Tenants fails
\* returns an error to its caller and sends no replace to Grafana.
C32_ListFailureIsFatal ==
    [][ \A t \in UIDs :
            ListingFails(t) =>
                /\ res'[t].err # "none"
                /\ sent' = NoPut
                /\ sso' = sso ]_vars

\* C32 amended: a Create whose listing fails returns the error; an Update or
\* Delete whose listing fails ends its sync there and returns without error;
\* none of them fetches or replaces the settings.
C32_ListFailureFatalForCreateOnly ==
    [][ \A t \in UIDs :
            ListingFails(t) =>
                /\ ~InSync(t)'
                /\ res'[t].op \in {"Create", "Update", "Delete"}
                /\ res'[t].err # "none" <=> res'[t].op = "Create"
                /\ res'[t].op # "Create" => res'[t].syncFailed
                /\ calls'[t] = 0
                /\ sent' = NoPut
                /\ sso' = sso ]_vars

\* An Update whose listing failed has returned without error and without a
\* call to Grafana, the document lacking the entries of its Tenant.
C32_Witness ==
    \E t \in Present :
        /\ pc[t] = "idle"
        /\ res[t].op = "Update"
        /\ res[t].err = "none"
        /\ res[t].syncFailed
        /\ lists[t] = 1
        /\ calls[t] = 0
        /\ HasGroups(store[t])
        /\ ~HasAll(store[t], Document(sso))

\* The mapping sequences one listing of the Tenants yields for t's sync: every
\* Tenant of the cluster, but t itself when t's sync runs for its deletion.
ListedFor(t) ==
    IF op[t] \in {"ObserveDelete", "Delete"} THEN ListedWithout(t)
    ELSE {[i \in 1..Len(o) |-> MappingOf(store[o[i]])] : o \in OrdersOf(store)}

\* C33: the orgMapping a sync writes is BuildOrgMapping of the mappings its one
\* listing returned (all Tenants, but the deleted one in a deletion), the
\* listing comes before the fetch, and the value does not depend on the
\* orgMapping that was fetched.
C33_WritesEncodeOfOneListing ==
    [][ \A t \in UIDs :
            /\ (SyncList(t) /\ failures' = failures) =>
                    (snap'[t] \in ListedFor(t) /\ pc'[t] = "fetch" /\ calls'[t] = calls[t])
            /\ (pc[t] \in {"fetch", "replace"} /\ pc'[t] \in {"fetch", "replace"}) =>
                    (snap'[t] = snap[t] /\ lists'[t] = lists[t])
            /\ sent'.by = t =>
                    /\ pc[t] = "replace"
                    /\ sent'.tenants = snap[t]
                    /\ sent'.body["orgMapping"] = BuildOrgMapping(snap[t])
            /\ (SyncReplace(t) /\ failures' = failures) =>
                    Document(sso') = BuildOrgMapping(snap[t])
            /\ (sso' # sso /\ ~ExternalEdit) => sent' # NoPut ]_vars

\* A sync has replaced a document it fetched by the encoding of the two
\* Tenants it listed, which has nothing of the old document.
C33_Witness ==
    /\ sent # NoPut
    /\ "orgMapping" \in DOMAIN sent.fetched
    /\ sent.fetched["orgMapping"] = Entry(<<"x">>, <<"o">>, Viewer)
    /\ Len(sent.tenants) = 2
    /\ Document(sso) = BuildOrgMapping(sent.tenants)
    /\ Document(sso) # <<>>
    /\ ~NamesOrg(Document(sso), <<"x">>)
    /\ \A i \in 1..Len(Split(Document(sso), ",")) :
            Split(Document(sso), ",")[i] # Entry(<<"x">>, <<"o">>, Viewer)

\* Some entry BuildOrgMapping emits for t is no entry of the document Grafana
\* holds.
MissesOwnEntry(t) ==
    LET mine == TenantEntries(MappingOf(store[t]))
        parts == Split(Document(sso), ",")
    IN  \E i \in 1..Len(mine) : \A j \in 1..Len(parts) : parts[j] # mine[i]

\* C34 as stated: Observe of a Tenant whose observation equals its desired
\* state, with Grafana reachable, reports ExistsNotSynced whenever one of the
\* Tenant's own entries is missing from the document.
C34_MissingOwnEntryIsDrift ==
    [][ \A t \in UIDs :
            (Settled(t) /\ MissesOwnEntry(t) /\ Observe(t) /\ failures' = failures) =>
                obsRes'[t] = "ExistsNotSynced" ]_vars

\* C34, amended: that Observe reports ExistsNotSynced when the settings hold
\* no entry <orgId>:<orgId>:Viewer for the Tenant's orgId, and Synced when they
\* hold it, although an own entry is missing.
C34_MissingOwnEntryIsDriftWithoutSelfEntry ==
    [][ \A t \in UIDs :
            (Settled(t) /\ MissesOwnEntry(t) /\ Observe(t) /\ failures' = failures) =>
                /\ calls'[t] = 1
                /\ obsRes'[t] = IF HoldsSelfEntry(sso, store[t].spec.OrgID)
                                THEN "Synced" ELSE "ExistsNotSynced"
                /\ pc'[t] = IF HoldsSelfEntry(sso, store[t].spec.OrgID)
                            THEN "idle" ELSE "update" ]_vars

\* An Observe with Grafana reachable has reported ExistsNotSynced for a Tenant
\* whose observation equals its desired state and whose entry is missing from
\* a document that holds another Tenant's entries.
C34_Witness ==
    \E t \in Present :
        /\ Settled(t)
        /\ MissesOwnEntry(t)
        /\ Document(sso) # <<>>
        /\ \E u \in Present \ {t} : HasAll(store[u], Document(sso))
        /\ obsRes[t] = "ExistsNotSynced"
        /\ pc[t] = "update"
        /\ calls[t] = 1
        /\ ~res[t].syncFailed

\* t was created, carries a deletionTimestamp and its last unsync, run by
\* Observe or by Delete, has replaced the settings; its object is still in the
\* cluster.
Unsynced(t) ==
    /\ store[t].present
    /\ store[t].externalName # ""
    /\ store[t].deletionTimestamp
    /\ pc[t] = "deleted"
    /\ op[t] \in {"ObserveDelete", "Delete"}
    /\ calls[t] = 2
    /\ ~res[t].syncFailed

\* The document holds an entry of t that no other Tenant of the cluster yields.
HoldsEntryOf(t, doc) ==
    LET mine == TenantEntries(MappingOf(store[t]))
        parts == Split(doc, ",")
    IN  \E i \in 1..Len(mine) :
            /\ \E j \in 1..Len(parts) : parts[j] = mine[i]
            /\ \A u \in Present \ {t} :
                    LET theirs == TenantEntries(MappingOf(store[u]))
                    IN  \A k \in 1..Len(theirs) : theirs[k] # mine[i]

\* C35: once the unsync of a Tenant with a deletionTimestamp has succeeded, no
\* step of another Tenant's Create, Update or Delete brings an entry of that
\* Tenant back into the document.
C35_UnsyncedEntriesStayOut ==
    [][ \A t \in UIDs :
            (Unsynced(t) /\ ~HoldsEntryOf(t, Document(sso)) /\ sent' # NoPut) =>
                ~HoldsEntryOf(t, Document(sso')) ]_vars

\* t has never been created: it carries no external name and no observation,
\* and its last Create was rejected by the uniqueness check.
Rejected(t) ==
    /\ store[t].present
    /\ store[t].externalName = ""
    /\ store[t].atProvider = EmptyObservation
    /\ pc[t] = "idle"
    /\ res[t].op = "Create"
    /\ res[t].err = "conflict"

\* C36: no document a reconcile writes holds an entry of a Tenant that has never
\* been created.
C36_UncreatedTenantsAddNothing ==
    [][ \A t \in UIDs :
            (Rejected(t) /\ sent' # NoPut) =>
                ~HoldsEntryOf(t, sent'.body["orgMapping"]) ]_vars

\* Several Tenants of the cluster carry t's tenantId and none of them has been
\* created.
SharedUncreated(t) ==
    /\ store[t].present
    /\ Duplicated(t)
    /\ \A u \in Present :
            store[u].spec.TenantID = store[t].spec.TenantID =>
                store[u].externalName = "" /\ ~store[u].deletionTimestamp

\* C37 as stated: when several Tenants share a tenantId and none of them has
\* been created, then, with every Tenant reconciled again and again, one of them
\* is eventually created, unless the tenantId stops being shared or a call fails.
C37_SomeDuplicateIsCreated ==
    \A t \in UIDs :
        SharedUncreated(t) ~>
            \/ \E u \in Present : store[u].externalName # ""
            \/ ~store[t].present
            \/ ~Duplicated(t)
            \/ failures > 0

\* The reconciles of the Tenants that share t's tenantId read them with it.
ReadAsShared(t) ==
    \A u \in Present :
        (store[u].spec.TenantID = store[t].spec.TenantID /\ managed[u].present) =>
            managed[u].spec.TenantID = store[u].spec.TenantID

\* C37, amended: while several Tenants share a tenantId, none of them has been
\* created and no reconcile of them works on an object read under another
\* tenantId, no step creates one of them, and every Create of one of them
\* whose listing succeeds ends with the conflict error.
C37_DuplicatesBlockEachOther ==
    [][ \A t \in UIDs :
            (SharedUncreated(t) /\ ReadAsShared(t)) =>
                /\ \A u \in Present :
                        store[u].spec.TenantID = store[t].spec.TenantID =>
                            /\ store'[u].externalName = ""
                            /\ store'[u].atProvider = EmptyObservation
                /\ (Create(t) /\ failures' = failures) =>
                        /\ res'[t].err = "conflict"
                        /\ pc'[t] = "idle"
                        /\ sent' = NoPut ]_vars

\* Two Tenants share a tenantId, neither is created, and the last Create of
\* each was refused with the conflict error.
C37_Witness ==
    \E t, u \in Present :
        /\ t # u
        /\ SharedUncreated(t)
        /\ store[u].spec.TenantID = store[t].spec.TenantID
        /\ res[t].op = "Create" /\ res[t].err = "conflict"
        /\ res[u].op = "Create" /\ res[u].err = "conflict"
        /\ failures = 0
        /\ edits = 0

\* Observe was called on a created Tenant without deletionTimestamp whose
\* observation equals its desired state.
ObservedUpToDate ==
    /\ input.fn = "Observe"
    /\ output # NoCall
    /\ input.cr.externalName # ""
    /\ ~input.cr.deletionTimestamp
    /\ isUpToDate(input.cr)

\* C38: when the drift check's fetch answers NotFound, or the settings it
\* returns are no map, Observe of an up-to-date Tenant with a viewer or editor
\* group reports ExistsNotSynced; the condition is drift, not a failed check.
C38_MissingSettingsAreDrift ==
    (/\ ObservedUpToDate
     /\ HasGroups(input.cr)
     /\ ~input.getFails
     /\ input.settings.kind \in {"NotFound", "NotMap"}) =>
        /\ output.exists
        /\ ~output.upToDate
        /\ ~output.driftErr
        /\ output.gets = 1
        /\ ~output.syncs

\* Observe has reported ExistsNotSynced for an up-to-date Tenant with groups
\* because Grafana has no generic_oauth settings.
C38_Witness ==
    /\ ObservedUpToDate
    /\ HasGroups(input.cr)
    /\ ~input.getFails
    /\ input.settings = NotFoundSSO
    /\ output.exists
    /\ ~output.upToDate
    /\ ~output.driftErr

\* C39: for a Tenant with neither viewer nor editor groups the drift check
\* fetches nothing and reports no drift: Observe reports Synced exactly when the
\* observation equals the desired state, whatever Grafana holds or answers.
C39_GrouplessNeverDrifts ==
    (/\ input.fn = "Observe"
     /\ output # NoCall
     /\ input.cr.externalName # ""
     /\ ~input.cr.deletionTimestamp
     /\ ~HasGroups(input.cr)) =>
        /\ output.exists
        /\ output.gets = 0
        /\ ~output.driftErr
        /\ output.upToDate <=> ~Differs(input.cr)
        /\ output.after = input.settings
        /\ [output EXCEPT !.after = <<>>] =
            [observeAndSync(input.cr, 1, <<[uid |-> 1, spec |-> input.cr.spec]>>,
                            MapSSO([k \in {"clientId"} |-> "c1"]), FALSE, FALSE, FALSE)
                EXCEPT !.after = <<>>]

\* Observe has reported Synced, without a fetch, for an up-to-date Tenant
\* without groups while Grafana does not answer.
C39_Witness ==
    /\ ObservedUpToDate
    /\ ~HasGroups(input.cr)
    /\ input.getFails
    /\ input.settings = NotFoundSSO
    /\ output.exists
    /\ output.upToDate
    /\ output.gets = 0

====
